---- MODULE Spec2Model ----
(***************************************************************************)
(* A model of excalimaid: the SVG path-data parser, the micro-parsers, the *)
(* element reconstruction pass and the scene encode/decode of              *)
(* src/excalidraw.py.                                                      *)
(*                                                                         *)
(* Text is modelled as a sequence of one-character strings.  Numbers are   *)
(* fixed-point integers counted in units of 10^-FracDigits, so that the    *)
(* rounding to RoundDigits decimals done by the curve flattening is        *)
(* visible.  Python's None is the empty sequence None and a set optional   *)
(* value v is Some(v).                                                     *)
(***************************************************************************)
EXTENDS Integers, Sequences, FiniteSets, TLC

VARIABLES
    path_in,    \* the path tag handed to Element.from_svg_path
    ps,         \* the running state of Element.from_svg_path
    tf_in,      \* the attribute text handed to parse_transform
    tf_out,     \* what parse_transform returned (or the exception it raised)
    doc,        \* the markup document handed to Excalidraw.from_svg
    scene,      \* the Excalidraw document reconstructed from doc
    wire,       \* a wire (JSON) document: scene encoded, or one handed to from_json
    dec,        \* the Excalidraw document decoded from wire
    wire2,      \* dec encoded again
    clip,       \* the text on the clipboard
    cc,         \* the running state of convert_clipboard
    current,    \* the set current of the keys recorded as held
    hk          \* the last key event handled and what its handler did

vars == <<path_in, ps, tf_in, tf_out, doc, scene, wire, dec, wire2, clip, cc, current, hk>>

pathVars == <<path_in, ps>>
transformVars == <<tf_in, tf_out>>
sceneVars == <<doc, scene>>
wireVars == <<wire, dec, wire2>>
clipVars == <<clip, cc>>
keyVars == <<current, hk>>

None == <<>>
Some(v) == <<v>>

----------------------------------------------------------------------------
(* Bounds of the model *)

\* decimal digits kept by the fixed-point numbers
FracDigits == 6
\* commands following the anchor command in a generated path-data string
MaxCmds == 2

(* Program constants *)

\* round(..., 5) in _bezier_curve_point
RoundDigits == 5
\* bezier_curve_recursive samples range(int((1 + speed * 2) // speed)) values of t, speed = 0.1
BezierSamples == 11

----------------------------------------------------------------------------
(* Text helpers *)

Digit == {"0", "1", "2", "3", "4", "5", "6", "7", "8", "9"}

DigitVal(c) ==
    CASE c = "0" -> 0 [] c = "1" -> 1 [] c = "2" -> 2 [] c = "3" -> 3
      [] c = "4" -> 4 [] c = "5" -> 5 [] c = "6" -> 6 [] c = "7" -> 7
      [] c = "8" -> 8 [] c = "9" -> 9

RECURSIVE Pow10(_)
Pow10(n) == IF n = 0 THEN 1 ELSE 10 * Pow10(n - 1)

Unit == Pow10(FracDigits)

\* index of the first occurrence of character c in s, 0 when absent
RECURSIVE IndexFrom(_, _, _)
IndexFrom(s, c, i) ==
    IF i > Len(s) THEN 0
    ELSE IF s[i] = c THEN i
    ELSE IndexFrom(s, c, i + 1)

IndexOf(s, c) == IndexFrom(s, c, 1)

Contains(s, c) == IndexOf(s, c) # 0

\* value of a sequence of digits read as a decimal numeral
RECURSIVE DigitsVal(_)
DigitsVal(s) ==
    IF s = <<>> THEN 0
    ELSE 10 * DigitsVal(SubSeq(s, 1, Len(s) - 1)) + DigitVal(s[Len(s)])

AllDigits(s) == \A i \in 1..Len(s) : s[i] \in Digit

\* Python's float(s) on text over digits, sign and point: [ok, v], ok FALSE
\* standing for ValueError.  v is in units of 10^-FracDigits.
\* digits beyond the FracDigits-th decimal are dropped
FracVal(fp) ==
    IF Len(fp) > FracDigits THEN DigitsVal(SubSeq(fp, 1, FracDigits))
    ELSE DigitsVal(fp) * Pow10(FracDigits - Len(fp))

FloatVal(ip, fp) ==
    IF AllDigits(ip) /\ AllDigits(fp) /\ Len(ip) + Len(fp) > 0
    THEN [ok |-> TRUE, v |-> DigitsVal(ip) * Unit + FracVal(fp)]
    ELSE [ok |-> FALSE, v |-> 0]

FloatParts(body, dot) ==
    IF dot = 0 THEN FloatVal(body, <<>>)
    ELSE FloatVal(SubSeq(body, 1, dot - 1), SubSeq(body, dot + 1, Len(body)))

FloatBody(body) == FloatParts(body, IndexOf(body, "."))

FloatNeg(f) == [f EXCEPT !.v = 0 - @]

float(s) ==
    IF s # <<>> /\ s[1] = "-" THEN FloatNeg(FloatBody(Tail(s)))
    ELSE IF s # <<>> /\ s[1] = "+" THEN FloatBody(Tail(s))
    ELSE FloatBody(s)

\* str.strip(chars)
RECURSIVE lstrip(_, _)
lstrip(s, chars) ==
    IF s # <<>> /\ s[1] \in chars THEN lstrip(Tail(s), chars) ELSE s

RECURSIVE rstrip(_, _)
rstrip(s, chars) ==
    IF s # <<>> /\ s[Len(s)] \in chars
    THEN rstrip(SubSeq(s, 1, Len(s) - 1), chars) ELSE s

strip(s, chars) == rstrip(lstrip(s, chars), chars)

\* s has the text pat at position i
HasAt(s, pat, i) == i + Len(pat) - 1 <= Len(s) /\ SubSeq(s, i, i + Len(pat) - 1) = pat

\* pat in s
Occurs(s, pat) == \E i \in 1..(Len(s) + 1) : HasAt(s, pat, i)

\* s.replace(old, new), old not empty
RECURSIVE Replace(_, _, _)
Replace(s, old, new) ==
    IF s = <<>> THEN <<>>
    ELSE IF HasAt(s, old, 1) THEN new \o Replace(SubSeq(s, Len(old) + 1, Len(s)), old, new)
    ELSE <<s[1]>> \o Replace(Tail(s), old, new)

\* str.split(sep) on a one-character separator
RECURSIVE SplitOn(_, _, _, _)
SplitOn(s, sep, cur, acc) ==
    IF s = <<>> THEN Append(acc, cur)
    ELSE IF s[1] = sep THEN SplitOn(Tail(s), sep, <<>>, Append(acc, cur))
    ELSE SplitOn(Tail(s), sep, Append(cur, s[1]), acc)

Uppers == <<"A", "B", "C", "D", "E", "F", "G", "H", "I", "J", "K", "L", "M", "N", "O", "P", "Q", "R", "S", "T", "U", "V", "W", "X", "Y", "Z">>
Lowers == <<"a", "b", "c", "d", "e", "f", "g", "h", "i", "j", "k", "l", "m", "n", "o", "p", "q", "r", "s", "t", "u", "v", "w", "x", "y", "z">>

\* str.lower()
LowerChar(c) ==
    IF \E i \in 1..Len(Uppers) : Uppers[i] = c
    THEN Lowers[CHOOSE i \in 1..Len(Uppers) : Uppers[i] = c]
    ELSE c
lower(s) == [i \in 1..Len(s) |-> LowerChar(s[i])]

\* one declaration kv of a style that has a colon: k, v = kv.split(":", 1),
\* both stripped and lowered; v = float(v) when that does not raise
Declared(kv) ==
    [k |-> lower(strip(SubSeq(kv, 1, IndexOf(kv, ":") - 1), {" "})),
     v |-> lower(strip(SubSeq(kv, IndexOf(kv, ":") + 1, Len(kv)), {" "}))]

StyleEntry(kv) ==
    [k |-> kv.k, is_str |-> ~float(kv.v).ok, num |-> float(kv.v).v, str |-> kv.v]

RECURSIVE StyleEntries(_)
StyleEntries(kvs) ==
    IF kvs = <<>> THEN <<>>
    ELSE IF ~Contains(kvs[1], ":") THEN StyleEntries(Tail(kvs))
    ELSE <<StyleEntry(Declared(kvs[1]))>> \o StyleEntries(Tail(kvs))

\* parse_style(style): the entries of the dict in the order they were set
parse_style(style) ==
    IF style = None \/ style[1] = <<>> THEN <<>>
    ELSE StyleEntries(SplitOn(style[1], ";", <<>>, <<>>))

\* key in out, and out[key]: the entry set last
StyleHas(out, key) == \E i \in 1..Len(out) : out[i].k = key
StyleGet(out, key) ==
    out[CHOOSE i \in 1..Len(out) :
          out[i].k = key /\ \A j \in (i + 1)..Len(out) : out[j].k # key]

\* size_attr_to_float(attr): 0.0 for an empty text and for one float() rejects
size_attr_to_float(attr) ==
    IF attr = <<>> THEN 0
    ELSE IF float(Replace(attr, <<"p", "x">>, <<>>)).ok
         THEN float(Replace(attr, <<"p", "x">>, <<>>)).v
    ELSE 0

\* str.replace(",", " ").split(): the whitespace-separated tokens of s
RECURSIVE SplitFrom(_, _, _)
SplitFrom(s, cur, acc) ==
    IF s = <<>> THEN (IF cur = <<>> THEN acc ELSE Append(acc, cur))
    ELSE IF s[1] \in {" ", ","}
         THEN SplitFrom(Tail(s), <<>>, IF cur = <<>> THEN acc ELSE Append(acc, cur))
         ELSE SplitFrom(Tail(s), Append(cur, s[1]), acc)

split_d(s) == SplitFrom(s, <<>>, <<>>)

\* round half to even of num / den (den > 0), as Python's round() does on ties
RoundDiv(num, den) ==
    IF 2 * (num % den) < den THEN num \div den
    ELSE IF 2 * (num % den) > den THEN (num \div den) + 1
    ELSE IF (num \div den) % 2 = 0 THEN num \div den
    ELSE (num \div den) + 1

SeqMax(s) == CHOOSE m \in {s[i] : i \in 1..Len(s)} : \A j \in 1..Len(s) : s[j] <= m
SeqMin(s) == CHOOSE m \in {s[i] : i \in 1..Len(s)} : \A j \in 1..Len(s) : s[j] >= m

----------------------------------------------------------------------------
(* Element.from_svg_path: the path-data parser *)

Flags == {"M", "m", "L", "l", "H", "h", "V", "v", "C", "c",
          "S", "s", "Q", "q", "T", "t", "A", "a", "Z", "z"}

\* flags = "MmLlHhVvCcSsQqTtAaZz", in the order the loop of pop_elts scans it
FlagSeq == <<"M", "m", "L", "l", "H", "h", "V", "v", "C", "c",
             "S", "s", "Q", "q", "T", "t", "A", "a", "Z", "z">>

\* for c in flags: if c in tok: ...; break  -- the index in flags of the first
\* flag that occurs in tok, 0 when none does
RECURSIVE FirstFlagFrom(_, _)
FirstFlagFrom(tok, i) ==
    IF i > Len(FlagSeq) THEN 0
    ELSE IF Contains(tok, FlagSeq[i]) THEN i
    ELSE FirstFlagFrom(tok, i + 1)

\* float(x.strip("Nn") or 0)
FloatOrZero(x) == IF x = <<>> THEN [ok |-> TRUE, v |-> 0] ELSE float(x)

FloatsCons(f, rest) == [ok |-> f.ok /\ rest.ok, vals |-> <<f.v>> \o rest.vals]

\* [float(x.strip("Nn") or 0) for x in elts]: [ok, vals]
RECURSIVE FloatsOf(_)
FloatsOf(elts) ==
    IF elts = <<>> THEN [ok |-> TRUE, vals |-> <<>>]
    ELSE FloatsCons(FloatOrZero(strip(elts[1], {"N", "n"})), FloatsOf(Tail(elts)))

PopRaise(kind) == [exc |-> kind, vals |-> <<>>, d |-> <<>>]

\* return [float(...) for x in elts], with d as pop_elts left it
PopReturn(fl, d) ==
    IF fl.ok THEN [exc |-> "", vals |-> fl.vals, d |-> d] ELSE PopRaise("ValueError")

\* All subsequent sets of parameters are considered implicit commands:
\* if d and d[0][0] not in flags: d[0] = letter + d[0][0]
PopImplicit(elts, d, letter) ==
    PopReturn(FloatsOf(elts),
              IF d # <<>> /\ d[1][1] \notin Flags
              THEN [d EXCEPT ![1] = <<letter, d[1][1]>>]
              ELSE d)

\* mutant: the text split off the last parameter is not put back on d
PopCutAt_Dropped(elts, d, letter, n, at) ==
    PopImplicit([elts EXCEPT ![n] = SubSeq(elts[n], 1, at - 1)], d, letter)

\* elts[-1], put_back = elts[-1].split(c, 1); d.insert(0, c + put_back)
PopCutAt(elts, d, letter, n, at) ==
    PopImplicit([elts EXCEPT ![n] = SubSeq(elts[n], 1, at - 1)],
                <<SubSeq(elts[n], at, Len(elts[n]))>> \o d, letter)

\* for c in flags: if c in elts[-1]: ...; break
PopCut(elts, d, letter, n, fi) ==
    IF fi = 0 THEN PopImplicit(elts, d, letter)
    ELSE PopCutAt(elts, d, letter, n, IndexOf(elts[n], FlagSeq[fi]))

\* letter = elts[0][0]; assert letter in flags; the letter is taken off elts[0],
\* and the next token popped when elts[0] was the letter alone
PopLetter(elts, d, n) ==
    IF elts[1][1] \notin Flags THEN PopRaise("AssertionError")
    ELSE IF Len(elts[1]) = 1
         THEN (IF d = <<>> THEN PopRaise("IndexError")
               ELSE PopCut(Tail(elts) \o <<d[1]>>, Tail(d), elts[1][1], n,
                           FirstFlagFrom((Tail(elts) \o <<d[1]>>)[n], 1)))
         ELSE PopCut(<<Tail(elts[1])>> \o Tail(elts), d, elts[1][1], n,
                     FirstFlagFrom((<<Tail(elts[1])>> \o Tail(elts))[n], 1))

\* pop_elts(n) on the token list d: [exc, vals, d], exc "" when it returns
pop_elts(d, n) ==
    IF Len(d) < n THEN PopRaise("IndexError")
    ELSE PopLetter(SubSeq(d, 1, n), SubSeq(d, n + 1, Len(d)), n)

pop_x_y(d) == pop_elts(d, 2)
pop_x1_y1_x2_y2_x_y(d) == pop_elts(d, 6)
pop_rx_ry_angle_largearcflag_sweepflag_dx_dy(d) == pop_elts(d, 7)

\* round(tenths / 10, 5) of a value given in tenths of the fixed-point unit
round5(tenths) ==
    Pow10(FracDigits - RoundDigits) * RoundDiv(tenths, 10 * Pow10(FracDigits - RoundDigits))

\* _bezier_curve_point(point_list, t, x_or_y) with t = k / 10
RECURSIVE bezier_curve_point(_, _, _)
bezier_curve_point(point_list, k, x_or_y) ==
    IF Len(point_list) = 1 THEN point_list[1][x_or_y]
    ELSE round5(bezier_curve_point(SubSeq(point_list, 1, Len(point_list) - 1), k, x_or_y)
                    * (10 - k)
                + bezier_curve_point(Tail(point_list), k, x_or_y) * k)

\* mutant: the sample at t = 1.0 is left out
bezier_curve_recursive_Short(def_points) ==
    [i \in 1..(BezierSamples - 1) |->
        <<bezier_curve_point(def_points, i - 1, 1),
          bezier_curve_point(def_points, i - 1, 2)>>]

\* bezier_curve_recursive(def_points, 0.1)
bezier_curve_recursive(def_points) ==
    [i \in 1..BezierSamples |->
        <<bezier_curve_point(def_points, i - 1, 1),
          bezier_curve_point(def_points, i - 1, 2)>>]

\* the parser's state when it stops with an exception
Raised(s, kind, what) == [s EXCEPT !.status = "raised", !.exc = kind, !.err = what]

NewLine == [status |-> "loop", exc |-> "", err |-> <<>>, d |-> <<>>,
            x |-> 0, y |-> 0, cur |-> <<0, 0>>, points |-> <<>>,
            width |-> 0, height |-> 0, type |-> "line",
            start_arrowhead |-> None, end_arrowhead |-> None,
            stroke_sharpness |-> "sharp",
            stroke_width |-> Unit, stroke_style |-> "solid"]

\* cur_x, cur_y = pop_x_y(); self.x, self.y = cur; self.points = [[0.0, 0.0]]
StartAt(r) ==
    IF r.exc # "" THEN Raised(NewLine, r.exc, <<>>)
    ELSE [NewLine EXCEPT !.d = r.d, !.x = r.vals[1], !.y = r.vals[2],
                         !.cur = <<r.vals[1], r.vals[2]>>, !.points = <<<<0, 0>>>>]

\* the stroke width taken from the entry w of the style: only an entry that is
\* a str is looked at, and only a width above 2 is kept
WidthOf(w) ==
    IF w.is_str /\ size_attr_to_float(w.str) > 2 * Unit
    THEN size_attr_to_float(w.str)
    ELSE Unit

\* the style of the path: stroke-width and stroke-dasharray
Styled(s, out) ==
    IF s.status = "raised" THEN s
    ELSE [s EXCEPT
            !.stroke_sharpness =
                IF StyleHas(out, <<"s", "t", "r", "o", "k", "e", "-", "w", "i", "d", "t", "h">>) THEN "round" ELSE @,
            !.stroke_width =
                IF StyleHas(out, <<"s", "t", "r", "o", "k", "e", "-", "w", "i", "d", "t", "h">>)
                THEN WidthOf(StyleGet(out, <<"s", "t", "r", "o", "k", "e", "-", "w", "i", "d", "t", "h">>)) ELSE @,
            !.stroke_style =
                IF StyleHas(out, <<"s", "t", "r", "o", "k", "e", "-", "d", "a", "s", "h", "a", "r", "r", "a", "y">>) THEN "dashed" ELSE @]

\* self = cls(TypeEnum.LINE); d = path["d"].replace(",", " ").split(); the
\* style is read before the first pop, and stays when the pop returns
PathStart(tag) == Styled(StartAt(pop_x_y(split_d(tag.d))), parse_style(tag.style))

\* self.points.append([next_x - self.x, next_y - self.y]); cur = next
MoveTo(s, r, nx, ny) ==
    [s EXCEPT !.d = r.d, !.points = Append(@, <<nx - s.x, ny - s.y>>), !.cur = <<nx, ny>>]

AbsTo(s, r) ==
    IF r.exc # "" THEN Raised(s, r.exc, <<>>) ELSE MoveTo(s, r, r.vals[1], r.vals[2])

\* the branch "L"
StepL(s) == AbsTo(s, pop_x_y(s.d))

\* the branch "M"
StepM(s) == AbsTo(s, pop_x_y(s.d))

\* the branch "Nn": d.pop(0)
StepN(s) == [s EXCEPT !.d = Tail(@)]

\* len({x1, x2, x}) > 1 and len({y1, y2, y}) > 1
Flattened(curve) ==
    /\ Cardinality({curve[1][1], curve[2][1], curve[3][1]}) > 1
    /\ Cardinality({curve[1][2], curve[2][2], curve[3][2]}) > 1

\* self.points.extend(curve); cur = next
CurveTo(s, r, curve) ==
    [s EXCEPT !.d = r.d,
              !.points = @ \o (IF Flattened(curve) THEN bezier_curve_recursive(curve)
                               ELSE curve),
              !.cur = <<r.vals[5], r.vals[6]>>]

\* curve = [[x1 - self.x, y1 - self.y], [x2 - self.x, y2 - self.y], [next_x - self.x, next_y - self.y]]
CurveOf(s, v) ==
    << <<v[1] - s.x, v[2] - s.y>>, <<v[3] - s.x, v[4] - s.y>>, <<v[5] - s.x, v[6] - s.y>> >>

CurveFrom(s, r) ==
    IF r.exc # "" THEN Raised(s, r.exc, <<>>) ELSE CurveTo(s, r, CurveOf(s, r.vals))

\* the branch "C"
StepC(s) == CurveFrom(s, pop_x1_y1_x2_y2_x_y(s.d))

ArcTo(s, r, c) ==
    IF r.exc = "IndexError" THEN [s EXCEPT !.status = "break"]
    ELSE IF r.exc # "" THEN Raised(s, r.exc, <<>>)
    ELSE IF c = "A" THEN MoveTo(s, r, r.vals[6], r.vals[7])
    ELSE MoveTo(s, r, s.cur[1] + r.vals[6], s.cur[2] + r.vals[7])

\* the branch "Aa": only the arc's end point is kept; IndexError ends the loop
StepA(s) == ArcTo(s, pop_rx_ry_angle_largearcflag_sweepflag_dx_dy(s.d), s.d[1][1])

RelTo(s, r) ==
    IF r.exc # "" THEN Raised(s, r.exc, <<>>)
    ELSE MoveTo(s, r, s.cur[1] + r.vals[1], s.cur[2] + r.vals[2])

\* the branch "l"
StepRelL(s) == RelTo(s, pop_x_y(s.d))

\* a variant that closes the path and goes on with the next token
StepZ_Continue(s) == [s EXCEPT !.points = Append(@, <<0, 0>>), !.d = Tail(@)]

\* the branch "zZ": close the path and leave the loop
StepZ(s) == [s EXCEPT !.points = Append(@, <<0, 0>>), !.status = "break"]

\* else: raise Exception("Unknown path command: " + d[0])
StepUnknown(s) == Raised(s, "Exception", s.d[1])

\* one turn of "while d:"
PathStep(s) ==
    CASE s.d[1][1] = "L" -> StepL(s)
      [] s.d[1][1] = "M" -> StepM(s)
      [] s.d[1][1] \in {"N", "n"} -> StepN(s)
      [] s.d[1][1] = "C" -> StepC(s)
      [] s.d[1][1] \in {"A", "a"} -> StepA(s)
      [] s.d[1][1] = "l" -> StepRelL(s)
      [] s.d[1][1] \in {"z", "Z"} -> StepZ(s)
      [] OTHER -> StepUnknown(s)

InLoop(s) == s.status = "loop" /\ s.d # <<>>

\* after the loop: extents, arrowheads, sharpness; return [self]
PathFinish(s, tag) ==
    LET xs == [i \in 1..Len(s.points) |-> s.points[i][1]]
        ys == [i \in 1..Len(s.points) |-> s.points[i][2]]
        arrow == tag.marker_start \/ tag.marker_end
    IN [s EXCEPT !.status = "done",
                 !.width = SeqMax(xs) - SeqMin(xs),
                 !.height = SeqMax(ys) - SeqMin(ys),
                 !.start_arrowhead = IF tag.marker_start THEN Some("triangle") ELSE None,
                 !.end_arrowhead = IF tag.marker_end THEN Some("triangle") ELSE None,
                 !.type = IF arrow THEN "arrow" ELSE "line",
                 !.stroke_sharpness = IF arrow THEN s.stroke_sharpness ELSE "round"]

\* Element.from_svg_path run to its end: status "done" or "raised"
RECURSIVE PathRun(_, _)
PathRun(s, tag) ==
    IF s.status = "raised" THEN s
    ELSE IF InLoop(s) THEN PathRun(PathStep(s), tag)
    ELSE PathFinish(s, tag)

from_svg_path(tag) == PathRun(PathStart(tag), tag)

----------------------------------------------------------------------------
(* The path tags Element.from_svg_path is run on *)

\* join the texts of seq with the separator sep
RECURSIVE Join(_, _)
Join(seq, sep) ==
    IF seq = <<>> THEN <<>>
    ELSE IF Len(seq) = 1 THEN seq[1]
    ELSE seq[1] \o sep \o Join(Tail(seq), sep)

Layouts == {"glued", "spaced", "mixed"}

\* one command written in a layout; an implicit repetition has no letter
RenderCmd(c, layout) ==
    CASE layout = "glued" -> <<c.letter>> \o Join(c.nums, <<",">>)
      [] layout = "spaced" -> <<c.letter>> \o <<" ">> \o Join(c.nums, <<" ">>)
      [] layout = "mixed" -> <<c.letter>> \o Join(c.nums, <<" ">>)

RenderImplicit(c, layout) ==
    IF layout = "glued" THEN <<" ">> \o Join(c.nums, <<",">>)
    ELSE <<" ">> \o Join(c.nums, <<" ">>)

RECURSIVE Render(_, _)
Render(cmds, layout) ==
    IF cmds = <<>> THEN <<>>
    ELSE (IF cmds[1].letter = "" THEN RenderImplicit(cmds[1], layout)
          ELSE (IF layout = "glued" THEN <<>> ELSE <<" ">>) \o RenderCmd(cmds[1], layout))
         \o Render(Tail(cmds), layout)

AnchorPairs == { << <<"2">>, <<"1">> >> }

Pairs == { << <<"1", "2">>, <<"-", "3">> >>,
           << <<"-", "3">>, <<"4", ".", "0", "0", "0", "0", "0", "4">> >> }

\* two control points and an end point: a proper curve whose end point has
\* more than RoundDigits decimals, three points sharing x, three sharing y
Curves == { << <<"3">>, <<"1">>, <<"5">>, <<"6">>,
               <<"8", ".", "0", "0", "0", "0", "0", "4">>, <<"4">> >>,
            << <<"3">>, <<"1">>, <<"3">>, <<"5">>, <<"3">>, <<"9">> >>,
            << <<"1">>, <<"4">>, <<"5">>, <<"4">>, <<"9">>, <<"4">> >> }

\* rx ry angle large-arc-flag sweep-flag
ArcHead == << <<"1">>, <<"1">>, <<"0">>, <<"0">>, <<"1">> >>

CmdChoices ==
    [letter : {"M", "L", "l", ""}, nums : Pairs]
    \cup { [letter |-> "A", nums |-> ArcHead \o << <<"1", "2">>, <<"-", "3">> >>],
             [letter |-> "a", nums |-> ArcHead \o << <<"-", "3">>, <<"7">> >>] }
    \cup [letter : {"C"}, nums : Curves]
    \cup [letter : {"Z", "z"}, nums : {<<>>}]
    \cup [letter : {"H"}, nums : { << <<"5">> >> }]
    \cup [letter : {"N"}, nums : { << <<"a", "N">>, <<"7">> >> }]

RECURSIVE CmdSeqs(_)
CmdSeqs(n) ==
    IF n = 0 THEN {<<>>}
    ELSE LET S == CmdSeqs(n - 1)
         IN S \cup {Append(cs, c) : cs \in {t \in S : Len(t) = n - 1}, c \in CmdChoices}

Markers == {<<FALSE, FALSE>>, <<FALSE, TRUE>>, <<TRUE, TRUE>>}

\* the paths that begin with M, and some that begin with another letter
PathInputs ==
    { [tag |-> [d |-> Render(<<[letter |-> "M", nums |-> a]>> \o cs, lay),
                marker_start |-> m[1], marker_end |-> m[2], style |-> None],
       cmds |-> <<[letter |-> "M", nums |-> a]>> \o cs,
       layout |-> lay, declared |-> None] :
      a \in AnchorPairs, cs \in CmdSeqs(MaxCmds), lay \in Layouts, m \in Markers }
    \cup
    { [tag |-> [d |-> Render(<<[letter |-> l, nums |-> a]>> \o cs, lay),
                marker_start |-> FALSE, marker_end |-> FALSE, style |-> None],
       cmds |-> <<[letter |-> l, nums |-> a]>> \o cs,
       layout |-> lay, declared |-> None] :
      l \in {"m", "H"}, a \in AnchorPairs, cs \in CmdSeqs(1), lay \in Layouts }

NoPath == [tag |-> [d |-> <<>>, marker_start |-> FALSE, marker_end |-> FALSE,
                   style |-> None],
           cmds |-> <<>>, layout |-> "glued", declared |-> None]

Idle == [status |-> "idle", exc |-> "", err |-> <<>>, d |-> <<>>,
         x |-> 0, y |-> 0, cur |-> <<0, 0>>, points |-> <<>>,
         width |-> 0, height |-> 0, type |-> "line",
         start_arrowhead |-> None, end_arrowhead |-> None,
         stroke_sharpness |-> "sharp",
         stroke_width |-> Unit, stroke_style |-> "solid"]

NoTransform == [text |-> None, parts |-> <<>>]
NoDoc == [kind |-> "none"]
\* AppState(): view_background_color '#ffffff', grid_size None
AppState == [view_background_color |-> "#ffffff", grid_size |-> None]

\* Excalidraw(elements=...): the dataclass with its defaults; status, exc and
\* what tell a document that was built from one that is not there, what being
\* the key or the value the exception carries
Excalidraw(elements) ==
    [status |-> "built", exc |-> "", what |-> "", elements |-> elements,
     app_state |-> AppState,
     files |-> <<>>, source |-> "https://nottheswimmer.org", version |-> 2,
     type |-> "excalidraw"]

NoScene == [Excalidraw(<<>>) EXCEPT !.status = "none"]
Failed(kind) == [Excalidraw(<<>>) EXCEPT !.status = "raised", !.exc = kind]
FailedWith(fault) == [Failed(fault.exc) EXCEPT !.what = fault.what]
NoWire == [status |-> "none", exc |-> "", json |-> <<>>]
NoResult == [status |-> "idle", x |-> 0, y |-> 0]
NoClip == [kind |-> "none"]
NoRun == [pc |-> "none"]
NoEvent == [event |-> "none"]

InitPath ==
    /\ path_in \in PathInputs
    /\ ps = Idle
    /\ tf_in = NoTransform
    /\ tf_out = NoResult
    /\ doc = NoDoc
    /\ scene = NoScene
    /\ wire = NoWire
    /\ dec = NoScene
    /\ wire2 = NoWire
    /\ clip = NoClip
    /\ cc = NoRun
    /\ current = {}
    /\ hk = NoEvent

Head1(s) == s.d[1][1]

DoStart ==
    /\ ps.status = "idle"
    /\ ps' = PathStart(path_in.tag)
    /\ UNCHANGED <<path_in, transformVars, sceneVars, wireVars, clipVars, keyVars>>

DoL ==
    /\ InLoop(ps) /\ Head1(ps) = "L"
    /\ ps' = StepL(ps)
    /\ UNCHANGED <<path_in, transformVars, sceneVars, wireVars, clipVars, keyVars>>

DoM ==
    /\ InLoop(ps) /\ Head1(ps) = "M"
    /\ ps' = StepM(ps)
    /\ UNCHANGED <<path_in, transformVars, sceneVars, wireVars, clipVars, keyVars>>

DoC ==
    /\ InLoop(ps) /\ Head1(ps) = "C"
    /\ ps' = StepC(ps)
    /\ UNCHANGED <<path_in, transformVars, sceneVars, wireVars, clipVars, keyVars>>

DoA ==
    /\ InLoop(ps) /\ Head1(ps) \in {"A", "a"}
    /\ ps' = StepA(ps)
    /\ UNCHANGED <<path_in, transformVars, sceneVars, wireVars, clipVars, keyVars>>

DoRelL ==
    /\ InLoop(ps) /\ Head1(ps) = "l"
    /\ ps' = StepRelL(ps)
    /\ UNCHANGED <<path_in, transformVars, sceneVars, wireVars, clipVars, keyVars>>

DoZ ==
    /\ InLoop(ps) /\ Head1(ps) \in {"z", "Z"}
    /\ ps' = StepZ(ps)
    /\ UNCHANGED <<path_in, transformVars, sceneVars, wireVars, clipVars, keyVars>>

DoUnknown ==
    /\ InLoop(ps) /\ Head1(ps) \notin {"L", "M", "N", "n", "C", "A", "a", "l", "z", "Z"}
    /\ ps' = StepUnknown(ps)
    /\ UNCHANGED <<path_in, transformVars, sceneVars, wireVars, clipVars, keyVars>>

DoFinish ==
    /\ ps.status \in {"loop", "break"} /\ ~InLoop(ps)
    /\ ps' = PathFinish(ps, path_in.tag)
    /\ UNCHANGED <<path_in, transformVars, sceneVars, wireVars, clipVars, keyVars>>

NextPath ==
    \/ DoStart \/ DoL \/ DoM \/ DoC \/ DoA \/ DoRelL \/ DoZ \/ DoUnknown \/ DoFinish

SpecPath == InitPath /\ [][NextPath]_vars

----------------------------------------------------------------------------
(* Element.from_svg_path: what the parser is expected to do *)

OnlyML(cmds) == \A i \in 1..Len(cmds) : cmds[i].letter \in {"M", "L"}

\* C8: a path-data string made only of M and L commands, each letter followed
\* by its pair, in any of the token layouts, parses without error to a points
\* sequence with one entry per coordinate pair, the first entry being (0,0).
C8_MLPointCount ==
    (OnlyML(path_in.cmds) /\ ps.status # "idle") =>
        /\ ps.status # "raised"
        /\ ps.points[1] = <<0, 0>>
        /\ Len(ps.points) <= Len(path_in.cmds)
        /\ ps.status = "done" => Len(ps.points) = Len(path_in.cmds)

C8_Witness ==
    /\ ps.status = "done"
    /\ OnlyML(path_in.cmds)
    /\ Len(path_in.cmds) = 3
    /\ path_in.cmds[2].letter = "L"
    /\ path_in.layout = "glued"
    /\ Len(ps.points) = 3

\* a turn of the loop that takes the branch "C" and returns
CTurn == InLoop(ps) /\ Head1(ps) = "C" /\ ps'.status = "loop"

\* the curve the C command at the head of d declares, relative to the anchor
DeclaredCurve == CurveOf(ps, pop_x1_y1_x2_y2_x_y(ps.d).vals)

\* round(v, 5)
RoundTo5(v) == round5(10 * v)

Last(seq) == seq[Len(seq)]

----------------------------------------------------------------------------
(* parse_transform *)

StartsWith(s, prefix) == Len(s) >= Len(prefix) /\ SubSeq(s, 1, Len(prefix)) = prefix

\* the index after the longest run of characters of class that starts at i
RECURSIVE RunEnd(_, _, _)
RunEnd(s, i, class) ==
    IF i <= Len(s) /\ s[i] \in class THEN RunEnd(s, i + 1, class) ELSE i

\* [-\d\.]
NumClass == Digit \cup {"-", "."}

\* \s
Space == {" "}

TranslateOpen == <<"t", "r", "a", "n", "s", "l", "a", "t", "e", "(">>

NoMatch == [matched |-> FALSE, g1 |-> <<>>, g2 |-> <<>>]

\* \s*\)  after the second group, which ends before index j
MatchClose(s, g1, i, j) ==
    IF j > i /\ RunEnd(s, j, Space) <= Len(s) /\ s[RunEnd(s, j, Space)] = ")"
    THEN [matched |-> TRUE, g1 |-> g1, g2 |-> SubSeq(s, i, j - 1)]
    ELSE NoMatch

\* ([-\d\.]+)  the second group, which starts at index i
MatchSecond(s, g1, i) == MatchClose(s, g1, i, RunEnd(s, i, NumClass))

\* ,\s*  after the first group, which is s[i..j-1]
MatchComma(s, i, j) ==
    IF j > i /\ j <= Len(s) /\ s[j] = ","
    THEN MatchSecond(s, SubSeq(s, i, j - 1), RunEnd(s, j + 1, Space))
    ELSE NoMatch

\* re.match(r"translate\(([-\d\.]+),\s*([-\d\.]+)\s*\)", transform): the
\* pattern is matched at the start of the text; what follows it is not looked at
re_match_translate(s) ==
    IF StartsWith(s, TranslateOpen)
    THEN MatchComma(s, Len(TranslateOpen) + 1, RunEnd(s, Len(TranslateOpen) + 1, NumClass))
    ELSE NoMatch

Returned(x, y) == [status |-> "returned", x |-> x, y |-> y]

\* return float(m.group(1)), float(m.group(2))
TransformFloats(f1, f2) ==
    IF f1.ok /\ f2.ok THEN Returned(f1.v, f2.v)
    ELSE [status |-> "ValueError", x |-> 0, y |-> 0]

TransformOf(m) ==
    IF ~m.matched THEN Returned(0, 0) ELSE TransformFloats(float(m.g1), float(m.g2))

\* parse_transform(transform), transform None or Some(text)
parse_transform(transform) ==
    IF transform = None \/ transform[1] = <<>> THEN Returned(0, 0)
    ELSE TransformOf(re_match_translate(transform[1]))

(* The attribute texts parse_transform is run on: a function name, two
   arguments, a separator and what follows the second argument *)

TfHeads == { TranslateOpen,
             <<"r", "o", "t", "a", "t", "e", "(">>,
             <<"s", "c", "a", "l", "e", "(">>,
             <<" ">> \o TranslateOpen }

TfNumbers == { <<"1", "2", ".", "5">>, <<"-", "3">>, <<"7">> }

TfArgs == TfNumbers \cup { <<"1", ".", "2", ".", "3">>, <<"-">>, <<"a">>, <<>> }

TfSeps == { <<",">>, <<",", " ">>, <<" ">> }

TfTails == { <<")">>, <<" ", ")">>, <<>>,
             <<")", " ", "r", "o", "t", "a", "t", "e", "(", "5", ")">> }

TfParts == [head : TfHeads, a1 : TfArgs, sep : TfSeps, a2 : TfArgs, tail : TfTails]

TfText(p) == p.head \o p.a1 \o p.sep \o p.a2 \o p.tail

NoParts == [head |-> <<>>, a1 |-> <<>>, sep |-> <<>>, a2 |-> <<>>, tail |-> <<>>]

TransformInputs ==
    { [text |-> Some(TfText(p)), parts |-> p] : p \in TfParts }
    \cup { [text |-> None, parts |-> NoParts], [text |-> Some(<<>>), parts |-> NoParts] }

InitTransform ==
    /\ tf_in \in TransformInputs
    /\ tf_out = NoResult
    /\ path_in = NoPath
    /\ ps = Idle
    /\ doc = NoDoc
    /\ scene = NoScene
    /\ wire = NoWire
    /\ dec = NoScene
    /\ wire2 = NoWire
    /\ clip = NoClip
    /\ cc = NoRun
    /\ current = {}
    /\ hk = NoEvent

DoTransform ==
    /\ tf_out.status = "idle"
    /\ tf_out' = parse_transform(tf_in.text)
    /\ UNCHANGED <<tf_in, pathVars, sceneVars, wireVars, clipVars, keyVars>>

NextTransform == DoTransform

SpecTransform == InitTransform /\ [][NextTransform]_vars

\* the text is the single function translate(<number>, <number>)
SingleTranslate(p) ==
    /\ p.head = TranslateOpen
    /\ p.a1 \in TfNumbers /\ p.a2 \in TfNumbers
    /\ p.sep \in { <<",">>, <<",", " ">> }
    /\ p.tail \in { <<")">>, <<" ", ")">> }

\* C10: parse_transform returns (x, y) exactly when its input is the single
\* function translate(<number>, <number>), and returns (0, 0) without raising
\* for every other input.
C10_TranslateOnly ==
    tf_out.status # "idle" =>
        /\ tf_out.status = "returned"
        /\ IF SingleTranslate(tf_in.parts)
           THEN tf_out.x = float(tf_in.parts.a1).v /\ tf_out.y = float(tf_in.parts.a2).v
           ELSE tf_out.x = 0 /\ tf_out.y = 0

----------------------------------------------------------------------------
(* Element: the dataclass and the builders of single elements.

   random_id(), and the random seed of an element, are modelled by the name
   "at" of the place in the markup where the call is made: two calls never
   return the same value.  An identifier drawn at random starts with "#"; an
   identifier read from the markup never does.  The seed, which the code
   never changes, identifies the Python object: two entries of a list with
   the same seed are the same object. *)

Abs(v) == IF v < 0 THEN 0 - v ELSE v

\* random_id() called at the place named at
random_id(at) == "#" \o at

\* Element(type): the defaults of the dataclass fields
cls(type, at) ==
    [type |-> type, x |-> 0, y |-> 0, width |-> 0, height |-> 0,
     id |-> random_id(at), fill_style |-> "hachure", stroke_width |-> 1,
     stroke_style |-> "solid", roughness |-> 0, opacity |-> 100,
     stroke_sharpness |-> "sharp", seed |-> at, version |-> 1,
     version_nonce |-> 1, is_deleted |-> FALSE, updated |-> 1, angle |-> 0,
     background_color |-> "transparent", stroke_color |-> "#000000",
     group_ids |-> <<>>, bound_elements |-> None, link |-> None,
     points |-> None, last_committed_point |-> None,
     start_binding |-> None, end_binding |-> None,
     start_arrowhead |-> None, end_arrowhead |-> None,
     text |-> None, font_size |-> None, font_family |-> None,
     text_align |-> None, vertical_align |-> None, baseline |-> None,
     container_id |-> None, original_text |-> None, pressures |-> None,
     simulate_pressure |-> None, status |-> None, file_id |-> None,
     scale |-> None]

\* BoundElement(txt.id, txt.type)
BoundElement(e) == [id |-> e.id, type |-> e.type]

\* what a builder returns: the exception it raised, or its list of elements
Ok(elts) == [exc |-> "", elts |-> elts]
Raise(kind) == [exc |-> kind, elts |-> <<>>]

\* the Element that from_svg_path returns for the parser state s; stroke_width
\* is the default 1 or the width taken from the style, in fixed-point units
PathElement(s, at) ==
    IF s.status = "raised" THEN Raise(s.exc)
    ELSE Ok(<<[cls("line", at) EXCEPT
                 !.x = s.x, !.y = s.y, !.points = Some(s.points),
                 !.width = s.width, !.height = s.height, !.type = s.type,
                 !.start_arrowhead = s.start_arrowhead,
                 !.end_arrowhead = s.end_arrowhead,
                 !.stroke_sharpness = s.stroke_sharpness,
                 !.stroke_style = s.stroke_style,
                 !.stroke_width = IF s.stroke_width = Unit THEN 1 ELSE s.stroke_width]>>)

\* Element.from_svg_path(path) as a builder
from_svg_path_elts(tag, at) == PathElement(from_svg_path(tag), at)

\* Element.from_svg_rectangle(rectangle, include_xy)
from_svg_rectangle(rectangle, include_xy, at) ==
    [cls("rectangle", at) EXCEPT
       !.stroke_sharpness =
           IF rectangle.rx # 0 \/ rectangle.ry # 0 THEN "round" ELSE "sharp",
       !.type =
           IF /\ rectangle.rx # 0 \/ rectangle.ry # 0
              /\ rectangle.rx - rectangle.ry < Unit
              /\ rectangle.rx > 15 * Unit \/ rectangle.ry > 15 * Unit
           THEN "ellipse" ELSE "rectangle",
       !.height = rectangle.height,
       !.width = rectangle.width,
       !.x = IF include_xy THEN rectangle.x ELSE 0,
       !.y = IF include_xy THEN rectangle.y ELSE 0]

PolyXs(polygon) == [i \in 1..Len(polygon.points) |-> polygon.points[i][1]]
PolyYs(polygon) == [i \in 1..Len(polygon.points) |-> polygon.points[i][2]]

\* Element.from_svg_polygon(polygon); polygon["transform"] must be there
from_svg_polygon(polygon, at) ==
    IF polygon.transform = None THEN Raise("KeyError")
    ELSE Ok(<<[cls("diamond", at) EXCEPT
                 !.width = SeqMax(PolyXs(polygon)) - SeqMin(PolyXs(polygon)),
                 !.height = SeqMax(PolyYs(polygon)) - SeqMin(PolyYs(polygon)),
                 !.x = polygon.transform[1][1]
                       + (SeqMax(PolyXs(polygon)) - SeqMin(PolyXs(polygon))) \div 2,
                 !.y = polygon.transform[1][2]
                       - (SeqMax(PolyYs(polygon)) - SeqMin(PolyYs(polygon)))]>>)

\* Element.from_svg_circle(circle)
from_svg_circle(circle, at) ==
    [cls("ellipse", at) EXCEPT
       !.x = circle.x, !.y = circle.y,
       !.width = circle.r * 2, !.height = circle.r * 2]

\* Element.from_svg_line(line)
from_svg_line(line, at) ==
    [cls("line", at) EXCEPT
       !.x = line.x1, !.y = line.y1,
       !.width = Abs(line.x2 - line.x1),
       !.height = Abs(line.y2 - line.y1),
       !.points = Some(<< <<0, 0>>, <<line.x2 - line.x1, line.y2 - line.y1>> >>)]

\* Element.from_svg_text(text)
from_svg_text(text, at) ==
    [cls("text", at) EXCEPT
       !.x = text.x, !.y = text.y,
       !.text = Some(text.text),
       !.height = 16 * Unit, !.font_size = Some(16 * Unit),
       !.width = Len(text.text) * 16 * Unit,
       !.font_family = Some(2),
       !.text_align = IF text.text_anchor = "middle" THEN Some("center")
                      ELSE IF text.text_anchor = "end" THEN Some("right")
                      ELSE Some("left"),
       !.vertical_align = IF text.dominant_baseline = "hanging" THEN Some("top")
                          ELSE IF text.dominant_baseline = "text-after-edge"
                               THEN Some("bottom")
                          ELSE Some("middle"),
       !.baseline = Some(16 * Unit),
       !.id = IF text.id = None THEN random_id(at) ELSE text.id[1]]

----------------------------------------------------------------------------
(* Element.from_svg_node, for a node that is not a root.

   The lists objs, txt_objs, line_objs and joiner_objs of the code hold
   references; here objs holds the elements and joiner holds the indexes in
   objs of the elements of joiner_objs. *)

\* tsfm_x, tsfm_y: node["transform"], 0.0 when it cannot be read
Tsfm(node) == IF node.transform = None THEN <<0, 0>> ELSE node.transform[1]

\* the Text element of one foreignobject
FoText(fo, tsfm, at) ==
    [cls("text", at) EXCEPT
       !.width = fo.width, !.height = fo.height,
       !.x = IF fo.transform = None THEN tsfm[1] - fo.width \div 2
             ELSE tsfm[1] + fo.transform[1][1],
       !.y = (IF fo.transform = None THEN tsfm[2]
              ELSE tsfm[2] + fo.transform[1][2]) - fo.height \div 2,
       !.text = Some(fo.text), !.original_text = Some(fo.text),
       !.font_size = Some(16 * Unit), !.font_family = Some(2),
       !.text_align = Some("center"), !.vertical_align = Some("middle"),
       !.baseline = Some(fo.height - (fo.height - 16 * Unit) \div 2),
       !.id = IF fo.id = None THEN random_id(at) ELSE fo.id[1]]

\* for fo in node.find_all("foreignobject"): the foreignobjects from the i-th on
RECURSIVE FoTexts(_, _, _, _)
FoTexts(fos, i, tsfm, at) ==
    IF i > Len(fos) THEN <<>>
    ELSE (IF fos[i].text = "" THEN <<>>
          ELSE <<FoText(fos[i], tsfm, at \o "/fo" \o ToString(i))>>)
         \o FoTexts(fos, i + 1, tsfm, at)

\* the hackfix for requirements title lines, and the node's transform
PlaceLine(ln, line, tsfm) ==
    [ln EXCEPT
       !.x = (IF line.req_title THEN ln.x - ln.width \div 2 ELSE ln.x) + tsfm[1],
       !.y = (IF line.req_title THEN ln.y - ln.width \div 2 ELSE ln.y) + tsfm[2]]

\* the divider Line element of the i-th line, bound to every text of txts
LineElt(lines, i, txts, tsfm, at) ==
    [PlaceLine(from_svg_line(lines[i], at \o "/line" \o ToString(i)), lines[i], tsfm)
       EXCEPT !.bound_elements = Some([k \in 1..Len(txts) |-> BoundElement(txts[k])])]

\* txt.container_id = ln.id, done by every line in turn: the last line's stays
TextsOfLines(txts, line_elts) ==
    IF line_elts = <<>> THEN txts
    ELSE [k \in 1..Len(txts) |->
            [txts[k] EXCEPT !.container_id = Some(line_elts[Len(line_elts)].id)]]

\* a variant that joins the texts whatever their number
JoinerOf_All(ntxt, nline) ==
    [k \in 1..nline |-> ntxt + k] \o [k \in 1..ntxt |-> k]

\* joiner_objs = line_objs; if len(txt_objs) == 1: joiner_objs += txt_objs
JoinerOf(ntxt, nline) ==
    [k \in 1..nline |-> ntxt + k] \o (IF ntxt = 1 THEN <<1>> ELSE <<>>)

NodeStart(txts, line_elts) ==
    [exc |-> "", objs |-> TextsOfLines(txts, line_elts) \o line_elts,
     joiner |-> JoinerOf(Len(txts), Len(line_elts)),
     rect_width |-> 0, rect_height |-> 0]

NodeLines(node, txts, tsfm, at) ==
    NodeStart(txts, [i \in 1..Len(node.lines) |-> LineElt(node.lines, i, txts, tsfm, at)])

InJoiner(st, i) == \E k \in 1..Len(st.joiner) : st.joiner[k] = i

\* shape.bound_elements = []; for txt in joiner_objs: txt.container_id = shape.id;
\* shape.bound_elements.append(BoundElement(txt.id, txt.type)); objs.append(shape)
Bind(st, shape) ==
    [st EXCEPT !.objs =
        [i \in 1..Len(st.objs) |->
            IF InJoiner(st, i) THEN [st.objs[i] EXCEPT !.container_id = Some(shape.id)]
            ELSE st.objs[i]]
        \o <<[shape EXCEPT !.bound_elements =
                 Some([k \in 1..Len(st.joiner) |-> BoundElement(st.objs[st.joiner[k]])])]>>]

Moved(e, dx, dy) == [e EXCEPT !.x = @ + dx, !.y = @ + dy]

RectSized(st, rect) == [st EXCEPT !.rect_width = rect.width, !.rect_height = rect.height]

BindRect(st, rect, tsfm) ==
    RectSized(Bind(st, Moved(rect, tsfm[1] - rect.width \div 2, tsfm[2] - rect.height \div 2)),
              rect)

\* rectangle = node.find("rect")
AddRect(st, node, tsfm, at) ==
    IF node.rect = None THEN st
    ELSE BindRect(st, from_svg_rectangle(node.rect[1], FALSE, at \o "/rect"), tsfm)

\* the sub-spans that are renderer placeholders
Placeholders == {"Id: undefined", "Text: undefined", "Risk: undefined",
                 "Verification: undefined", "Type: Not Specified", "Doc Ref: None"}

\* the Text element of one tspan; dx, dy are the offsets summed so far
TspanText(text, text_id, i, dx, dy, st, tsfm, at) ==
    [cls("text", at) EXCEPT
       !.width = IF st.rect_width # 0 THEN st.rect_width
                 ELSE Len(text.tspans[i].text) * 16 * Unit,
       !.height = 16 * Unit,
       !.x = text.x + text.tspans[i].x + dx + tsfm[1]
             - (st.rect_width \div 2)
             - (IF text.tspans[i].text_anchor = "middle"
                THEN (IF st.rect_width # 0 THEN st.rect_width
                      ELSE Len(text.tspans[i].text) * 16 * Unit)
                ELSE 0),
       !.y = text.y + text.tspans[i].y + dy + tsfm[2] - (st.rect_height \div 2),
       !.text = Some(text.tspans[i].text),
       !.original_text = Some(text.tspans[i].text),
       !.font_size = Some(16 * Unit), !.font_family = Some(2),
       !.text_align = IF text.tspans[i].text_anchor = "middle"
                      THEN Some("center") ELSE Some("left"),
       !.vertical_align = Some("middle"),
       !.baseline = Some(8 * Unit),
       !.id = text_id \o "-" \o ToString(i - 1),
       !.group_ids = <<text_id>>]

\* for i, tspan in enumerate(tspans): the sub-spans from the i-th on
RECURSIVE TspanTexts(_, _, _, _, _, _, _, _)
TspanTexts(text, text_id, i, dx, dy, st, tsfm, at) ==
    IF i > Len(text.tspans) THEN <<>>
    ELSE IF text.tspans[i].text \in Placeholders
         THEN TspanTexts(text, text_id, i + 1, dx, dy, st, tsfm, at)
         ELSE <<TspanText(text, text_id, i, dx + text.tspans[i].dx, dy + text.tspans[i].dy,
                          st, tsfm, at \o "/tspan" \o ToString(i))>>
              \o TspanTexts(text, text_id, i + 1, dx + text.tspans[i].dx,
                            dy + text.tspans[i].dy, st, tsfm, at)

\* text_id = text.get("id", random_id())
TextId(text, at) == IF text.id = None THEN random_id(at) ELSE text.id[1]

\* for text in node.find_all("text"): the texts from the j-th on.  A text with
\* no tspan is built by from_svg_text and moved, and not added to objs.
RECURSIVE TextElts(_, _, _, _, _)
TextElts(texts, j, st, tsfm, at) ==
    IF j > Len(texts) THEN <<>>
    ELSE TspanTexts(texts[j], TextId(texts[j], at \o "/text" \o ToString(j)), 1, 0, 0,
                    st, tsfm, at \o "/text" \o ToString(j))
         \o TextElts(texts, j + 1, st, tsfm, at)

AddTexts(st, node, tsfm, at) ==
    [st EXCEPT !.objs = @ \o TextElts(node.texts, 1, st, tsfm, at)]

BindBuilt(st, r, dx, dy) ==
    IF r.exc # "" THEN [st EXCEPT !.exc = r.exc]
    ELSE Bind(st, Moved(r.elts[1], dx, dy))

PolyShift(r, tsfm) == IF r.exc # "" THEN 0 ELSE tsfm[1] - r.elts[1].width \div 2

PolyBound(st, r, tsfm) == BindBuilt(st, r, PolyShift(r, tsfm), tsfm[2])

\* polygon = node.find("polygon")
AddPolygon(st, node, tsfm, at) ==
    IF st.exc # "" \/ node.polygon = None THEN st
    ELSE PolyBound(st, from_svg_polygon(node.polygon[1], at \o "/polygon"), tsfm)

CircleBound(st, circ, tsfm) ==
    Bind(st, Moved(circ, tsfm[1], tsfm[2] - circ.height \div 4))

\* circle = node.find("circle")
AddCircle(st, node, tsfm, at) ==
    IF st.exc # "" \/ node.circle = None THEN st
    ELSE CircleBound(st, from_svg_circle(node.circle[1], at \o "/circle"), tsfm)

PathShiftX(r, tsfm) == IF r.exc # "" THEN 0 ELSE tsfm[1] - r.elts[1].width \div 2
PathShiftY(r, tsfm) == IF r.exc # "" THEN 0 ELSE tsfm[2] - r.elts[1].height \div 2

PathBound(st, r, tsfm) == BindBuilt(st, r, PathShiftX(r, tsfm), PathShiftY(r, tsfm))

\* path = node.find("path")
AddPath(st, node, tsfm, at) ==
    IF st.exc # "" \/ node.path = None THEN st
    ELSE PathBound(st, from_svg_path_elts(node.path[1], at \o "/path"), tsfm)

\* a variant that gives every element of the node a group id of its own
Grouped_Apart(st, group_id) ==
    IF st.exc # "" THEN Raise(st.exc)
    ELSE Ok([i \in 1..Len(st.objs) |->
               [st.objs[i] EXCEPT !.group_ids = <<group_id \o ToString(i)>>]])

\* group_id = random_id(); for obj in objs: obj.group_ids = [group_id]
Grouped(st, group_id) ==
    IF st.exc # "" THEN Raise(st.exc)
    ELSE Ok([i \in 1..Len(st.objs) |-> [st.objs[i] EXCEPT !.group_ids = <<group_id>>]])

\* Element.from_svg_node(node) for a node without the class "root"
from_svg_plain_node(node, at) ==
    Grouped(
      AddPath(
        AddCircle(
          AddPolygon(
            AddTexts(
              AddRect(
                NodeLines(node, FoTexts(node.fos, 1, Tsfm(node), at), Tsfm(node), at),
                node, Tsfm(node), at),
              node, Tsfm(node), at),
            node, Tsfm(node), at),
          node, Tsfm(node), at),
        node, Tsfm(node), at),
      random_id(at \o "/group"))

----------------------------------------------------------------------------
(* Element.from_svg_edge_path, from_svg_edge_label, from_svg_node and
   from_svg_tree.

   A tree is a record of its four groups and of the svg root the fallback
   scans; a group that is missing and a group without children reconstruct
   alike, so each group is the sequence of its children:
     edgePaths   [paths, groups]   the direct path children, the g.edgePath
     edgeLabels                    the g.edgeLabel children
     nodes       [children, links] the g.node / g.root children, the a children
     clusters                      the g.cluster children
     svg         None, or Some([gs, paths, rects, texts]) *)

\* a + b of two builders' lists: the first exception raised propagates
Cat(a, b) ==
    IF a.exc # "" THEN a ELSE IF b.exc # "" THEN b ELSE Ok(a.elts \o b.elts)

\* self.opacity = int(edge_path_style["opacity"] * 100), when it is truthy
WithEdge(e, id, opacity) ==
    [e EXCEPT !.id = id,
              !.opacity = IF opacity # 0 THEN (opacity * 100) \div Unit ELSE @]

EdgeOf(r, g) ==
    IF r.exc # "" THEN r
    ELSE Ok([k \in 1..Len(r.elts) |-> WithEdge(r.elts[k], g.id, g.opacity)])

\* Element.from_svg_edge_path(edge_path)
from_svg_edge_path(g, at) ==
    IF g.path = None THEN Ok(<<>>)
    ELSE EdgeOf(from_svg_path_elts(g.path[1], at), g)

\* the fake g made for the i-th direct path child; g['style'] = path['style']
FakeEdgePath(path, i, at) ==
    IF path.style = None THEN Raise("KeyError")
    ELSE from_svg_edge_path([id |-> "root-edgepath-" \o ToString(i - 1),
                             opacity |-> path.style[1],
                             path |-> Some(path.tag)], at)

RECURSIVE DirectPaths(_, _, _)
DirectPaths(paths, i, at) ==
    IF i > Len(paths) THEN Ok(<<>>)
    ELSE Cat(FakeEdgePath(paths[i], i, at \o "/path" \o ToString(i)),
             DirectPaths(paths, i + 1, at))

RECURSIVE EdgePathGroups(_, _, _)
EdgePathGroups(groups, i, at) ==
    IF i > Len(groups) THEN Ok(<<>>)
    ELSE Cat(from_svg_edge_path(groups[i], at \o "/edge" \o ToString(i)),
             EdgePathGroups(groups, i + 1, at))

\* the edgePaths group of from_svg_tree
TreeEdgePaths(tree, at) ==
    Cat(DirectPaths(tree.edgePaths.paths, 1, at),
        EdgePathGroups(tree.edgePaths.groups, 1, at))

\* node.font_size *= 0.8 for a Text, node.background_color = "#e0e0e0" otherwise
LabelElt(e) ==
    IF e.type = "text" THEN [e EXCEPT !.font_size = Some((@[1] * 8) \div 10)]
    ELSE [e EXCEPT !.background_color = "#e0e0e0"]

LabelOf(r) ==
    IF r.exc # "" THEN r ELSE Ok([k \in 1..Len(r.elts) |-> LabelElt(r.elts[k])])

\* Element.from_svg_edge_label(edge_label); span.get fails without a span
from_svg_edge_label(edge_label, at) ==
    IF ~edge_label.span THEN Raise("AttributeError")
    ELSE LabelOf(from_svg_plain_node(edge_label, at))

RECURSIVE TreeEdgeLabels(_, _, _)
TreeEdgeLabels(labels, i, at) ==
    IF i > Len(labels) THEN Ok(<<>>)
    ELSE Cat(from_svg_edge_label(labels[i], at \o "/label" \o ToString(i)),
             TreeEdgeLabels(labels, i + 1, at))

\* how many entries of elts are the object of entry k
Times(elts, k) == Cardinality({j \in 1..Len(elts) : elts[j].seed = elts[k].seed})

\* element.group_ids.append(tree_id), n times
RECURSIVE Appended(_, _, _)
Appended(ids, id, n) == IF n = 0 THEN ids ELSE Appended(Append(ids, id), id, n - 1)

\* a variant that puts tree_id before the identifiers already present
TreeStamp_Prepend(elts, tsfm_x, tsfm_y, tree_id) ==
    [k \in 1..Len(elts) |->
        [elts[k] EXCEPT !.x = @ + Times(elts, k) * tsfm_x,
                        !.y = @ + Times(elts, k) * tsfm_y,
                        !.group_ids = <<tree_id>> \o @]]

\* for element in elements: element.x += tsfm_x; element.y += tsfm_y;
\* element.group_ids gets tree_id.  An object listed n times is visited n times.
TreeStamp(elts, tsfm_x, tsfm_y, tree_id) ==
    [k \in 1..Len(elts) |->
        [elts[k] EXCEPT !.x = @ + Times(elts, k) * tsfm_x,
                        !.y = @ + Times(elts, k) * tsfm_y,
                        !.group_ids = Appended(@, tree_id, Times(elts, k))]]

FinalLoop(r, tsfm_x, tsfm_y, tree_id) ==
    IF r.exc # "" THEN r ELSE Ok(TreeStamp(r.elts, tsfm_x, tsfm_y, tree_id))

\* link_element.link = a.get('xlink:href'); x += a_tsfm_x; y += a_tsfm_y
LinkElt(e, a) ==
    [e EXCEPT !.link = a.href,
              !.x = @ + (IF a.transform = None THEN 0 ELSE a.transform[1][1]),
              !.y = @ + (IF a.transform = None THEN 0 ELSE a.transform[1][2])]

LinkOf(r, a) ==
    IF r.exc # "" THEN r ELSE Ok([k \in 1..Len(r.elts) |-> LinkElt(r.elts[k], a)])

\* elt.group_ids gets group_id; elt.x += c_tsfm_x; elt.y += c_tsfm_y;
\* and the elements of the inner group move right by half their width when
\* the cluster's transform is (0.0, 0.0)
ClusterElt(e, group_id, t, inner) ==
    [e EXCEPT !.group_ids = Append(@, group_id),
              !.x = @ + t.x + (IF inner /\ t.x = 0 /\ t.y = 0 THEN e.width \div 2 ELSE 0),
              !.y = @ + t.y]

ClusterElts(rect, g_elts, group_id, t) ==
    <<ClusterElt(rect, group_id, t, FALSE)>>
    \o [k \in 1..Len(g_elts) |-> ClusterElt(g_elts[k], group_id, t, TRUE)]

ClusterMoved(rect, r, group_id, t) ==
    IF r.exc # "" THEN r
    ELSE IF t.status # "returned" THEN Raise(t.status)
    ELSE Ok(ClusterElts(rect, r.elts, group_id, t))

\* group_id = g.get('id', random_id())
ClusterId(g, at) == IF g.id = None THEN random_id(at) ELSE g.id[1]

\* one g.cluster of the clusters group: rect = cluster.find('rect'),
\* g = cluster.find('g'), parse_transform(cluster.get('transform'))
ClusterOf(cluster, at) ==
    IF cluster.rect = None \/ cluster.g = None THEN Raise("AttributeError")
    ELSE ClusterMoved(from_svg_rectangle(cluster.rect[1], TRUE, at \o "/rect"),
                      from_svg_plain_node(cluster.g[1], at \o "/g"),
                      ClusterId(cluster.g[1], at \o "/id"),
                      parse_transform(cluster.transform))

RECURSIVE TreeClusters(_, _, _)
TreeClusters(clusters, i, at) ==
    IF i > Len(clusters) THEN Ok(<<>>)
    ELSE Cat(ClusterOf(clusters[i], at \o "/cluster" \o ToString(i)),
             TreeClusters(clusters, i + 1, at))

\* Hackfix for requirementDiagrams on a top-level path
LinePath(r, path) ==
    IF r.exc # "" \/ ~path.relationshipLine THEN r
    ELSE Ok(<<Moved(r.elts[1], 0 - 100 * Unit, 0 - 100 * Unit)>>)

RECURSIVE SvgPaths(_, _, _)
SvgPaths(paths, i, at) ==
    IF i > Len(paths) THEN Ok(<<>>)
    ELSE Cat(LinePath(from_svg_path_elts(paths[i].tag, at \o "/path" \o ToString(i)), paths[i]),
             SvgPaths(paths, i + 1, at))

\* rect_elts[i].x -= 100; rect_elts[i].y -= 100, done by the i-th top-level
\* text when it is a relationshipLabel
SvgRect(svg, i, at) ==
    IF i <= Len(svg.texts) /\ svg.texts[i].relationshipLabel
    THEN Moved(from_svg_rectangle(svg.rects[i], TRUE, at \o "/rect" \o ToString(i)),
               0 - 100 * Unit, 0 - 100 * Unit)
    ELSE from_svg_rectangle(svg.rects[i], TRUE, at \o "/rect" \o ToString(i))

\* rect_elts += from_svg_rectangle(rect); elements += rect_elts: after the
\* i-th rect the whole of rect_elts so far is added to elements again
RECURSIVE SvgRects(_, _, _)
SvgRects(svg, i, at) ==
    IF i > Len(svg.rects) THEN <<>>
    ELSE [k \in 1..i |-> SvgRect(svg, k, at)] \o SvgRects(svg, i + 1, at)

\* the element of the i-th top-level text
SvgText(svg, i, at) ==
    IF svg.texts[i].relationshipLabel /\ Len(svg.rects) >= i
    THEN [from_svg_text(svg.texts[i], at \o "/text" \o ToString(i)) EXCEPT
            !.x = SvgRect(svg, i, at).x,
            !.width = SvgRect(svg, 1, at).width,
            !.y = SvgRect(svg, i, at).y]
    ELSE from_svg_text(svg.texts[i], at \o "/text" \o ToString(i))

SvgTexts(svg, at) == [i \in 1..Len(svg.texts) |-> SvgText(svg, i, at)]

RECURSIVE from_svg_tree(_, _, _, _, _)
RECURSIVE from_svg_node(_, _)
RECURSIVE NodesFrom(_, _, _, _)

\* Element.from_svg_node(node): a root is a tree with an identifier of its own
from_svg_node(node, at) ==
    IF node.root
    THEN from_svg_tree(node.tree, Tsfm(node)[1], Tsfm(node)[2],
                       Some(random_id(at \o "/tree")), at)
    ELSE from_svg_plain_node(node, at)

\* for node in find_all('g', class_=...): the children with root = want
NodesFrom(children, i, want, at) ==
    IF i > Len(children) THEN Ok(<<>>)
    ELSE IF children[i].root # want THEN NodesFrom(children, i + 1, want, at)
    ELSE Cat(from_svg_node(children[i], at \o "/node" \o ToString(i)),
             NodesFrom(children, i + 1, want, at))

\* the nodes, then the roots
NodesOf(children, at) ==
    Cat(NodesFrom(children, 1, FALSE, at), NodesFrom(children, 1, TRUE, at))

RECURSIVE TreeLinks(_, _, _)
TreeLinks(links, i, at) ==
    IF i > Len(links) THEN Ok(<<>>)
    ELSE Cat(LinkOf(NodesOf(links[i].children, at \o "/a" \o ToString(i)), links[i]),
             TreeLinks(links, i + 1, at))

\* the nodes group of from_svg_tree
TreeNodes(tree, at) ==
    Cat(NodesOf(tree.nodes.children, at), TreeLinks(tree.nodes.links, 1, at))

\* the elements of the four groups
Structured(tree, at) ==
    Cat(Cat(Cat(TreeEdgePaths(tree, at \o "/edgePaths"),
                TreeEdgeLabels(tree.edgeLabels, 1, at \o "/edgeLabels")),
            TreeNodes(tree, at \o "/nodes")),
        TreeClusters(tree.clusters, 1, at \o "/clusters"))

\* for g in svg.find_all('g', recursive=False)
RECURSIVE SvgGs(_, _, _)
SvgGs(gs, i, at) ==
    IF i > Len(gs) THEN Ok(<<>>)
    ELSE Cat(from_svg_node(gs[i], at \o "/g" \o ToString(i)), SvgGs(gs, i + 1, at))

\* the general scan of the svg root
SvgScan(svg, at) ==
    Cat(Cat(SvgGs(svg.gs, 1, at), SvgPaths(svg.paths, 1, at)),
        Ok(SvgRects(svg, 1, at) \o SvgTexts(svg, at)))

\* a variant without the general scan
Fallback_Skip(tree, r, at) == r

\* if not elements: svg = tree.find('svg'); if svg: ...
Fallback(tree, r, at) ==
    IF r.exc # "" \/ r.elts # <<>> \/ tree.svg = None THEN r
    ELSE SvgScan(tree.svg[1], at \o "/svg")

\* Element.from_svg_tree(tree, tsfm_x, tsfm_y, tree_id)
from_svg_tree(tree, tsfm_x, tsfm_y, tree_id, at) ==
    FinalLoop(Fallback(tree, Structured(tree, at), at), tsfm_x, tsfm_y,
              IF tree_id = None THEN random_id(at \o "/tree") ELSE tree_id[1])

----------------------------------------------------------------------------
(* The markup documents reconstruction is run on *)

MaxFos == 3
MaxLines == 2
MaxRects == 2
MaxDepth == 2

Px(n) == n * Unit

\* the text of a path: M2,1 followed by the commands cmds
PathD(cmds) == Render(<<[letter |-> "M", nums |-> << <<"2">>, <<"1">> >>]>> \o cmds, "glued")

LineToCmd == [letter |-> "L", nums |-> << <<"1", "2">>, <<"-", "3">> >>]
HorizontalCmd == [letter |-> "H", nums |-> << <<"5">> >>]

PathTag(cmds, marker_end) ==
    [d |-> PathD(cmds), marker_start |-> FALSE, marker_end |-> marker_end,
     style |-> None]

FoTag(text, id) ==
    [text |-> text, width |-> Px(10), height |-> Px(20), transform |-> None, id |-> id]

\* the k-th foreignobject of a node: the second one is positioned and has an
\* id, those after it are empty
FoAt(k) ==
    IF k = 1 THEN FoTag("A", None)
    ELSE IF k = 2 THEN [FoTag("B", Some("fo-b")) EXCEPT !.transform = Some(<<Px(1), Px(2)>>)]
    ELSE FoTag("", None)

FoTags(i) == [k \in 1..i |-> FoAt(k)]

LineTag(y, req_title) ==
    [x1 |-> 0 - Px(5), y1 |-> y, x2 |-> Px(5), y2 |-> y, req_title |-> req_title]

\* the divider lines of a node, the second one a requirements title line
LineTags(i) == [k \in 1..i |-> LineTag(Px(4 * k), k = 2)]

RectTag(width, height, rx) ==
    [width |-> width, height |-> height, rx |-> rx, ry |-> rx, x |-> Px(3), y |-> Px(4)]

PolygonTag(transform) ==
    [transform |-> transform,
     points |-> << <<Px(6), 0>>, <<Px(12), 0 - Px(6)>>, <<Px(6), 0 - Px(12)>>, <<0, 0 - Px(6)>> >>]

CircleTag == [r |-> Px(7), x |-> 0 - Px(7), y |-> 0 - Px(7)]

TspanTag(text, dy, anchor) ==
    [text |-> text, x |-> 0, y |-> 0, dx |-> 0, dy |-> dy, text_anchor |-> anchor]

TextTag(text, id, tspans, relationshipLabel) ==
    [x |-> Px(1), y |-> Px(2), id |-> id, text |-> text, text_anchor |-> "middle",
     dominant_baseline |-> "hanging", tspans |-> tspans,
     relationshipLabel |-> relationshipLabel]

\* the text children of a node: none; one of three sub-spans, the second a
\* placeholder; one without sub-spans
NodeTextTags ==
    { <<>>,
      <<TextTag("", Some("req"), <<TspanTag("Name", Px(16), "middle"),
                                   TspanTag("Id: undefined", Px(16), ""),
                                   TspanTag("Text", Px(16), "")>>, FALSE)>>,
      <<TextTag("plain", None, <<>>, FALSE)>> }

NodeTag(transform, fos, lines, rect, texts, polygon, circle, path) ==
    [root |-> FALSE, span |-> TRUE, id |-> None, transform |-> transform,
     fos |-> fos, lines |-> lines, rect |-> rect, texts |-> texts,
     polygon |-> polygon, circle |-> circle, path |-> path]

\* every combination of children of one node
NodeTags ==
    { NodeTag(Some(<<Px(20), Px(30)>>), FoTags(f), LineTags(l), r, t, p, c, q) :
        f \in 0..MaxFos, l \in 0..MaxLines,
        r \in {None, Some(RectTag(Px(30), Px(40), 0))},
        t \in NodeTextTags,
        p \in {None, Some(PolygonTag(Some(<<0 - Px(6), Px(6)>>))), Some(PolygonTag(None))},
        c \in {None, Some(CircleTag)},
        q \in {None, Some(PathTag(<<LineToCmd>>, FALSE)), Some(PathTag(<<HorizontalCmd>>, FALSE))} }

\* a node of a flowchart: a rect and one label
LabelledNode(text, x) ==
    NodeTag(Some(<<x, Px(30)>>), <<FoTag(text, None)>>, <<>>,
            Some(RectTag(Px(30), Px(40), 0)), <<>>, None, None, None)

EmptyTree ==
    [edgePaths |-> [paths |-> <<>>, groups |-> <<>>], edgeLabels |-> <<>>,
     nodes |-> [children |-> <<>>, links |-> <<>>], clusters |-> <<>>,
     svg |-> None]

RootTag(tree, transform) == [root |-> TRUE, transform |-> transform, tree |-> tree]

LinkTag(children) ==
    [transform |-> Some(<<Px(1), Px(1)>>), href |-> Some("https://example.org"),
     children |-> children]

\* a g.edgePath, its id made distinct by the depth d it sits at
EdgePathTag(d, path) ==
    [id |-> "L-A-B-" \o ToString(d), opacity |-> Px(1), path |-> path]

\* the edgePaths groups drawn: without children; one g.edgePath with a
\* marker-end; one g.edgePath without path; one direct path with a style;
\* one direct path without
EdgePathsTags(d) ==
    { [paths |-> <<>>, groups |-> <<>>],
      [paths |-> <<>>, groups |-> <<EdgePathTag(d, Some(PathTag(<<LineToCmd>>, TRUE)))>>],
      [paths |-> <<>>, groups |-> <<EdgePathTag(d, None)>>],
      [paths |-> <<[tag |-> PathTag(<<LineToCmd>>, TRUE), style |-> Some(0)]>>,
       groups |-> <<>>],
      [paths |-> <<[tag |-> PathTag(<<LineToCmd>>, TRUE), style |-> None]>>,
       groups |-> <<>>] }

EdgeLabelTag(span) ==
    [LabelledNode("yes", Px(50)) EXCEPT !.span = span]

ClusterTag(transform, id) ==
    [rect |-> Some(RectTag(Px(100), Px(80), 0)),
     g |-> Some([NodeTag(None, <<FoTag("Sub", None)>>, <<>>, None, <<>>, None, None, None)
                   EXCEPT !.id = id]),
     transform |-> transform]

ClustersTags ==
    { <<>>,
      <<ClusterTag(Some(<<"t","r","a","n","s","l","a","t","e","(","5",",","6",")">>),
                   Some("subGraph0"))>>,
      <<ClusterTag(None, None)>> }

\* what sits beside the nodes of a tree
TreeFrames(d) ==
    { [edgePaths |-> e, edgeLabels |-> l, clusters |-> c] :
        e \in EdgePathsTags(d),
        l \in {<<>>, <<EdgeLabelTag(TRUE)>>},
        c \in ClustersTags }
    \cup { [edgePaths |-> [paths |-> <<>>, groups |-> <<>>],
            edgeLabels |-> <<EdgeLabelTag(FALSE)>>, clusters |-> <<>>] }

TreeTag(frame, children, links) ==
    [edgePaths |-> frame.edgePaths, edgeLabels |-> frame.edgeLabels,
     nodes |-> [children |-> children, links |-> links],
     clusters |-> frame.clusters, svg |-> None]

TwoNodes == <<LabelledNode("A", Px(20)), LabelledNode("B", Px(80))>>

\* what sits beside the nodes of a tree that holds a root subgraph: no edge
\* path, a g.edgePath, or a direct path with its style
NestFrames(d) ==
    { f \in TreeFrames(d) :
        /\ f.edgeLabels = <<>>
        /\ f.clusters = <<>>
        /\ \A i \in 1..Len(f.edgePaths.paths) : f.edgePaths.paths[i].style # None
        /\ \A i \in 1..Len(f.edgePaths.groups) : f.edgePaths.groups[i].path # None }

\* the trees with root subgraphs nested d deep, each root before two nodes
RECURSIVE Nested(_)
Nested(d) ==
    IF d = 0 THEN { TreeTag(f, TwoNodes, <<>>) : f \in NestFrames(0) }
    ELSE { TreeTag(f, <<RootTag(t, Some(<<Px(7), Px(9)>>))>> \o TwoNodes, <<>>) :
             f \in NestFrames(d), t \in Nested(d - 1) }

\* the flowcharts: two labelled nodes in every frame, a linked node, and
\* root subgraphs nested up to MaxDepth deep
TreeTags ==
    { TreeTag(f, TwoNodes, <<>>) : f \in TreeFrames(0) }
    \cup { TreeTag(f, <<>>, <<LinkTag(<<LabelledNode("C", Px(20))>>)>>) : f \in NestFrames(0) }
    \cup UNION { Nested(d) : d \in 1..MaxDepth }

\* the top-level texts: the second one an empty relationship label
SvgTextTags(i) ==
    [k \in 1..i |-> IF k = 2 THEN TextTag("", Some("t2"), <<>>, TRUE)
                    ELSE TextTag("hello", None, <<>>, FALSE)]

\* the top-level rects: the second one with corners round enough for an ellipse
SvgRectTags(i) ==
    [k \in 1..i |-> IF k = 2 THEN RectTag(Px(50), Px(40), Px(20))
                    ELSE RectTag(Px(30), Px(40), 0)]

\* the svg roots the fallback scans
SvgTags ==
    { [gs |-> g, paths |-> p, rects |-> SvgRectTags(r), texts |-> SvgTextTags(t)] :
        g \in {<<>>, <<LabelledNode("A", Px(20))>>},
        p \in {<<>>, <<[tag |-> PathTag(<<LineToCmd>>, FALSE), relationshipLine |-> TRUE]>>},
        r \in 0..MaxRects, t \in 0..2 }

\* the documents: one node of every make-up, flowcharts, unsupported diagrams
Docs ==
    { [kind |-> "node", tree |-> TreeTag(CHOOSE f \in TreeFrames(0) :
                                           /\ f.edgePaths.paths = <<>>
                                           /\ f.edgePaths.groups = <<>>
                                           /\ f.edgeLabels = <<>>
                                           /\ f.clusters = <<>>, <<n>>, <<>>)] :
        n \in NodeTags }
    \cup { [kind |-> "flowchart", tree |-> t] : t \in TreeTags }
    \cup { [kind |-> "svg", tree |-> [EmptyTree EXCEPT !.svg = Some(s)]] : s \in SvgTags }

----------------------------------------------------------------------------
(* to_json and from_json.  A JSON object is a function from its keys to their
   values; a key that is absent is not in its domain. *)

\* the keys Element.to_json always writes, with the attribute each one holds
BaseAttr ==
    [id |-> "id", type |-> "type", x |-> "x", y |-> "y", width |-> "width",
     height |-> "height", angle |-> "angle", fillStyle |-> "fill_style",
     strokeWidth |-> "stroke_width", strokeStyle |-> "stroke_style",
     roughness |-> "roughness", opacity |-> "opacity", groupIds |-> "group_ids",
     strokeSharpness |-> "stroke_sharpness", seed |-> "seed", version |-> "version",
     versionNonce |-> "version_nonce", isDeleted |-> "is_deleted",
     updated |-> "updated", backgroundColor |-> "background_color",
     strokeColor |-> "stroke_color"]

\* the keys Element.to_json writes under an if, with their attributes
OptAttr ==
    [boundElements |-> "bound_elements", link |-> "link", points |-> "points",
     lastCommittedPoint |-> "last_committed_point",
     startBinding |-> "start_binding", endBinding |-> "end_binding",
     startArrowhead |-> "start_arrowhead", endArrowhead |-> "end_arrowhead",
     text |-> "text", fontSize |-> "font_size", fontFamily |-> "font_family",
     textAlign |-> "text_align", verticalAlign |-> "vertical_align",
     baseline |-> "baseline", containerId |-> "container_id",
     originalText |-> "original_text", pressures |-> "pressures",
     simulatePressure |-> "simulate_pressure", status |-> "status",
     fileId |-> "file_id", scale |-> "scale"]

BaseKeys == DOMAIN BaseAttr
OptKeys == DOMAIN OptAttr

\* the optional keys by the kind of value they hold
ListKeys == {"boundElements", "points", "lastCommittedPoint", "pressures", "scale"}
StrKeys == {"link", "text", "containerId", "originalText", "status", "fileId"}
NumKeys == {"fontSize", "fontFamily", "baseline"}
BoolKeys == {"simulatePressure"}
BindingKeys == {"startBinding", "endBinding"}

\* the enumerations
TypeEnum == {"arrow", "diamond", "ellipse", "freedraw", "image", "line", "rectangle", "text"}
Arrowhead == {"dot", "arrow", "bar", "triangle"}
Style == {"cross-hatch", "hachure", "solid"}
StrokeStyle == {"solid", "dashed", "dotted"}
StrokeSharpness == {"round", "sharp"}
TextAlign == {"center", "left", "right"}
VerticalAlign == {"bottom", "middle", "top"}

EnumOf ==
    [type |-> TypeEnum, fillStyle |-> Style, strokeStyle |-> StrokeStyle,
     strokeSharpness |-> StrokeSharpness, startArrowhead |-> Arrowhead,
     endArrowhead |-> Arrowhead, textAlign |-> TextAlign,
     verticalAlign |-> VerticalAlign]

\* bool(v) for the value v of the attribute written under key k
Truthy(k, v) ==
    CASE k \in ListKeys -> v # <<>>
      [] k \in StrKeys -> v # ""
      [] k \in NumKeys -> v # 0
      [] k \in BoolKeys -> v
      [] OTHER -> TRUE

\* Binding.to_json, Binding.from_json
Binding_to_json(b) == [elementId |-> b.element_id, focus |-> b.focus, gap |-> b.gap]
Binding_from_json(j) == [element_id |-> j.elementId, focus |-> j.focus, gap |-> j.gap]

\* the JSON value of key k for the attribute value v, and back
ToWire(k, v) == IF k \in BindingKeys THEN Binding_to_json(v) ELSE v
FromWire(k, v) == IF k \in BindingKeys THEN Binding_from_json(v) ELSE v

\* if self.<attr>: obj[k] = ...
Written(e, k) == e[OptAttr[k]] # None /\ Truthy(k, e[OptAttr[k]][1])

\* Element.to_json
Element_to_json(e) ==
    [k \in BaseKeys \cup {o \in OptKeys : Written(e, o)} |->
        IF k \in BaseKeys THEN e[BaseAttr[k]] ELSE ToWire(k, e[OptAttr[k]][1])]

NoFault == [exc |-> "", what |-> ""]

\* the keys Element.from_json reads, in the order it reads them: those of the
\* constructor call, then the optional ones
ReadOrder ==
    <<"id", "type", "x", "y", "width", "height", "angle", "fillStyle", "strokeWidth",
      "strokeStyle", "roughness", "opacity", "groupIds", "strokeSharpness", "seed",
      "version", "versionNonce", "isDeleted", "updated", "backgroundColor",
      "strokeColor", "boundElements", "link", "points", "lastCommittedPoint",
      "startBinding", "endBinding", "startArrowhead", "endArrowhead", "text",
      "fontSize", "fontFamily", "textAlign", "verticalAlign", "baseline",
      "containerId", "originalText", "pressures", "simulatePressure", "status",
      "fileId", "scale">>

\* [BoundElement.from_json(be) for be in ...]: TypeEnum(be["type"]) of the
\* first entry whose type is no member raises
BoundFault(bes) ==
    IF \A i \in 1..Len(bes) : bes[i].type \in TypeEnum THEN NoFault
    ELSE [exc |-> "ValueError",
          what |-> bes[CHOOSE i \in 1..Len(bes) :
                         /\ bes[i].type \notin TypeEnum
                         /\ \A h \in 1..(i - 1) : bes[h].type \in TypeEnum].type]

\* mutant: the type of a boundElements entry is kept as it is written
KeyFault_BoundKept(j, k) ==
    IF k \notin DOMAIN j
    THEN (IF k \in BaseKeys THEN [exc |-> "KeyError", what |-> k] ELSE NoFault)
    ELSE IF k \in DOMAIN EnumOf /\ j[k] \notin EnumOf[k]
         THEN [exc |-> "ValueError", what |-> j[k]]
    ELSE NoFault

\* what reading the key k of j raises: json_obj[k] of a key that is not there
\* is a KeyError carrying the key, <Enum>(literal) of a literal that is no
\* member is a ValueError carrying the literal
KeyFault(j, k) ==
    IF k \notin DOMAIN j
    THEN (IF k \in BaseKeys THEN [exc |-> "KeyError", what |-> k] ELSE NoFault)
    ELSE IF k \in DOMAIN EnumOf /\ j[k] \notin EnumOf[k]
         THEN [exc |-> "ValueError", what |-> j[k]]
    ELSE IF k = "boundElements" THEN BoundFault(j[k])
    ELSE NoFault

\* the first exception raised while the keys from the i-th on are read
RECURSIVE FaultFrom(_, _)
FaultFrom(j, i) ==
    IF i > Len(ReadOrder) THEN NoFault
    ELSE IF KeyFault(j, ReadOrder[i]) # NoFault THEN KeyFault(j, ReadOrder[i])
    ELSE FaultFrom(j, i + 1)

\* the exception Element.from_json raises on j, with what it carries
ElementFault(j) == FaultFrom(j, 1)

\* the exception Element.from_json raises on j, "" when it raises none
ElementError(j) == ElementFault(j).exc

KeyOfAttr(a) ==
    IF \E k \in BaseKeys : BaseAttr[k] = a THEN CHOOSE k \in BaseKeys : BaseAttr[k] = a
    ELSE CHOOSE k \in OptKeys : OptAttr[k] = a

\* the attribute set from key k: json_obj[k] for a key always read, and for
\* the others if json_obj.get(k) is not None: obj.<attr> = ...
AttrFrom(j, k) ==
    IF k \in BaseKeys THEN j[k]
    ELSE IF k \in DOMAIN j THEN Some(FromWire(k, j[k]))
    ELSE None

\* Element.from_json, on an object it does not raise on
Element_from_json(j) ==
    [a \in {BaseAttr[k] : k \in BaseKeys} \cup {OptAttr[k] : k \in OptKeys} |->
        AttrFrom(j, KeyOfAttr(a))]

\* AppState.to_json, AppState.from_json
AppState_to_json(a) ==
    [viewBackgroundColor |-> a.view_background_color, gridSize |-> a.grid_size]

AppState_from_json(j) ==
    [view_background_color |-> j.viewBackgroundColor, grid_size |-> j.gridSize]

\* Excalidraw.to_json
Excalidraw_to_json(s) ==
    [type |-> s.type, version |-> s.version, source |-> s.source,
     elements |-> [i \in 1..Len(s.elements) |-> Element_to_json(s.elements[i])],
     appState |-> AppState_to_json(s.app_state),
     files |-> s.files]

\* json.get("appState") is truthy: the key is there with a non-empty object
HasAppState(j) == "appState" \in DOMAIN j /\ DOMAIN j.appState # {}

\* [Element.from_json(e) for e in json["elements"]]: the exception of the
\* first element that raises one
RECURSIVE ElementsFault(_, _)
ElementsFault(elements, i) ==
    IF i > Len(elements) THEN NoFault
    ELSE IF ElementFault(elements[i]) # NoFault THEN ElementFault(elements[i])
    ELSE ElementsFault(elements, i + 1)

\* AppState.from_json(json["appState"]) if json.get("appState") else AppState()
AppStateFault(j) ==
    IF ~HasAppState(j) THEN NoFault
    ELSE IF "viewBackgroundColor" \notin DOMAIN j.appState
         THEN [exc |-> "KeyError", what |-> "viewBackgroundColor"]
    ELSE IF "gridSize" \notin DOMAIN j.appState
         THEN [exc |-> "KeyError", what |-> "gridSize"]
    ELSE NoFault

\* the exception Excalidraw.from_json raises on j, with what it carries; the
\* arguments of cls(...) are evaluated in the order they are written
DecodeFault(j) ==
    IF "type" \notin DOMAIN j THEN [exc |-> "KeyError", what |-> "type"]
    ELSE IF "elements" \notin DOMAIN j THEN [exc |-> "KeyError", what |-> "elements"]
    ELSE IF ElementsFault(j.elements, 1) # NoFault THEN ElementsFault(j.elements, 1)
    ELSE IF AppStateFault(j) # NoFault THEN AppStateFault(j)
    ELSE IF "files" \notin DOMAIN j THEN [exc |-> "KeyError", what |-> "files"]
    ELSE NoFault

\* the exception Excalidraw.from_json raises on j, "" when it raises none
DecodeError(j) == DecodeFault(j).exc

Decoded(j) ==
    [status |-> "built", exc |-> "", what |-> "",
     type |-> j.type,
     version |-> IF "version" \in DOMAIN j THEN j.version ELSE 2,
     source |-> IF "source" \in DOMAIN j THEN j.source ELSE "https://excalidraw.com",
     elements |-> [i \in 1..Len(j.elements) |-> Element_from_json(j.elements[i])],
     app_state |-> IF HasAppState(j) THEN AppState_from_json(j.appState) ELSE AppState,
     files |-> j.files]

\* Excalidraw.from_json
Excalidraw_from_json(j) ==
    IF DecodeError(j) # "" THEN FailedWith(DecodeFault(j)) ELSE Decoded(j)

----------------------------------------------------------------------------
(* Reconstruction of a document: Excalidraw.from_svg_tree(tree) is
   cls(elements=Element.from_svg_tree(tree)) *)

SceneOf(r) == IF r.exc # "" THEN Failed(r.exc) ELSE Excalidraw(r.elts)

InitTree ==
    /\ doc \in Docs
    /\ scene = NoScene
    /\ wire = NoWire
    /\ dec = NoScene
    /\ wire2 = NoWire
    /\ path_in = NoPath
    /\ ps = Idle
    /\ tf_in = NoTransform
    /\ tf_out = NoResult
    /\ clip = NoClip
    /\ cc = NoRun
    /\ current = {}
    /\ hk = NoEvent

Reconstruct ==
    /\ scene.status = "none"
    /\ scene' = SceneOf(from_svg_tree(doc.tree, 0, 0, None, ""))
    /\ UNCHANGED <<doc, wireVars, pathVars, transformVars, clipVars, keyVars>>

\* wire = scene.to_json()
Encode ==
    /\ scene.status = "built"
    /\ wire.status = "none"
    /\ wire' = [status |-> "encoded", exc |-> "", json |-> Excalidraw_to_json(scene)]
    /\ UNCHANGED <<sceneVars, dec, wire2, pathVars, transformVars, clipVars, keyVars>>

\* dec = Excalidraw.from_json(wire)
Decode ==
    /\ wire.status # "none"
    /\ dec.status = "none"
    /\ dec' = Excalidraw_from_json(wire.json)
    /\ UNCHANGED <<sceneVars, wire, wire2, pathVars, transformVars, clipVars, keyVars>>

NextTree == Reconstruct \/ Encode \/ Decode

SpecTree == InitTree /\ [][NextTree]_vars

----------------------------------------------------------------------------
(* Claims on the reconstructed document *)

Built == scene.status = "built"
Elts == scene.elements
Ix == 1..Len(scene.elements)

\* the ids listed in the bound_elements of element i
BoundIds(i) ==
    IF Elts[i].bound_elements = None THEN {}
    ELSE {Elts[i].bound_elements[1][k].id : k \in 1..Len(Elts[i].bound_elements[1])}

\* C1: in the list from_svg_tree returns, every element listed in the
\* bound_elements of an element A has container_id equal to A.id, and every
\* element whose container_id is A.id is listed in A.bound_elements, whatever
\* children the nodes have.
C1_Reciprocity ==
    Built =>
      \A i \in Ix : \A j \in Ix :
        /\ Elts[j].id \in BoundIds(i) => Elts[j].container_id = Some(Elts[i].id)
        /\ Elts[j].container_id = Some(Elts[i].id) => Elts[j].id \in BoundIds(i)

\* C4: no two entries of the list from_svg_tree returns have the same id.
C4_UniqueIds ==
    Built => \A i \in Ix : \A j \in Ix : i # j => Elts[i].id # Elts[j].id

\* a document without any of the four groups whose svg root has one
\* top-level rect and one top-level text, and nothing else
OneRectOneText ==
    /\ doc.kind = "svg"
    /\ doc.tree.svg[1].gs = <<>>
    /\ doc.tree.svg[1].paths = <<>>
    /\ Len(doc.tree.svg[1].rects) = 1
    /\ Len(doc.tree.svg[1].texts) = 1

Unbound(e) ==
    /\ e.bound_elements = None
    /\ e.container_id = None
    /\ e.start_binding = None
    /\ e.end_binding = None

TwoNodeFlowchart ==
    /\ doc.kind = "flowchart"
    /\ doc.tree.nodes.children = TwoNodes
    /\ doc.tree.nodes.links = <<>>
    /\ doc.tree.edgeLabels = <<>>
    /\ doc.tree.clusters = <<>>
    /\ \/ /\ doc.tree.edgePaths.paths = <<>>
          /\ Len(doc.tree.edgePaths.groups) = 1
          /\ doc.tree.edgePaths.groups[1].path # None
          /\ doc.tree.edgePaths.groups[1].path[1].marker_end
       \/ /\ doc.tree.edgePaths.groups = <<>>
          /\ Len(doc.tree.edgePaths.paths) = 1
          /\ doc.tree.edgePaths.paths[1].style # None
          /\ doc.tree.edgePaths.paths[1].tag.marker_end

Shapes == {"rectangle", "ellipse", "diamond"}

SharedGroup(i, j) ==
    \E g \in 1..Len(Elts[i].group_ids) : \E h \in 1..Len(Elts[j].group_ids) :
        Elts[i].group_ids[g] = Elts[j].group_ids[h]

\* the group id that elements i and j have and no other element has
OwnGroup(i, j) ==
    \E g \in 1..Len(Elts[i].group_ids) :
        /\ \E h \in 1..Len(Elts[j].group_ids) : Elts[i].group_ids[g] = Elts[j].group_ids[h]
        /\ \A k \in Ix \ {i, j} :
              \A h \in 1..Len(Elts[k].group_ids) : Elts[k].group_ids[h] # Elts[i].group_ids[g]

\* C7: the two-node, one-edge flowchart reconstructs to exactly 5 elements:
\* one Arrow whose end_arrowhead is set and whose points start with (0,0), and
\* for each node one Text and one container shape that share a group id.
C7_Flowchart ==
    TwoNodeFlowchart /\ scene.status # "none" =>
      /\ Built
      /\ Len(Elts) = 5
      /\ Cardinality({i \in Ix : Elts[i].type = "arrow"}) = 1
      /\ \A i \in Ix : Elts[i].type = "arrow" =>
            /\ Elts[i].end_arrowhead # None
            /\ Elts[i].points # None
            /\ Elts[i].points[1][1] = <<0, 0>>
      /\ Cardinality({i \in Ix : Elts[i].type = "text"}) = 2
      /\ Cardinality({i \in Ix : Elts[i].type \in Shapes}) = 2
      /\ \A i \in Ix : Elts[i].type = "text" =>
            \E j \in Ix : Elts[j].type \in Shapes /\ OwnGroup(i, j)
      /\ \A j \in Ix : Elts[j].type \in Shapes =>
            \E i \in Ix : Elts[i].type = "text" /\ OwnGroup(i, j)

C7_Witness == TwoNodeFlowchart /\ Built /\ Len(Elts) = 5

\* C2: decoding the encoding of a document from_svg produced gives a
\* document field-wise equal to it, the fields set to an empty or zero value
\* included.
C2_DecodeEncode == dec.status # "none" => dec = scene

(* The structural units enclosing each entry of the list, innermost first,
   told from the markup alone: a node, a cluster, a root subgraph and the
   tree enclose what is reconstructed from the markup inside them. *)

\* n entries enclosed by the units chain
Enclosed(n, chain) == [k \in 1..n |-> chain]

\* every chain of chains, enclosed by one more unit
Within(chains, unit) == [k \in 1..Len(chains) |-> Append(chains[k], unit)]

Count(r) == Len(r.elts)

\* the entries of a node that is not a root: all in the node's group
UnitsOfPlain(node, at) ==
    Enclosed(Count(from_svg_plain_node(node, at)), <<random_id(at \o "/group")>>)

RECURSIVE UnitsOfTree(_, _, _)
RECURSIVE UnitsOfNodes(_, _, _, _)

UnitsOfNode(node, at) ==
    IF node.root THEN UnitsOfTree(node.tree, random_id(at \o "/tree"), at)
    ELSE UnitsOfPlain(node, at)

UnitsOfNodes(children, i, want, at) ==
    IF i > Len(children) THEN <<>>
    ELSE IF children[i].root # want THEN UnitsOfNodes(children, i + 1, want, at)
    ELSE UnitsOfNode(children[i], at \o "/node" \o ToString(i))
         \o UnitsOfNodes(children, i + 1, want, at)

UnitsOfChildren(children, at) ==
    UnitsOfNodes(children, 1, FALSE, at) \o UnitsOfNodes(children, 1, TRUE, at)

RECURSIVE UnitsOfLinks(_, _, _)
UnitsOfLinks(links, i, at) ==
    IF i > Len(links) THEN <<>>
    ELSE UnitsOfChildren(links[i].children, at \o "/a" \o ToString(i))
         \o UnitsOfLinks(links, i + 1, at)

RECURSIVE UnitsOfLabels(_, _, _)
UnitsOfLabels(labels, i, at) ==
    IF i > Len(labels) THEN <<>>
    ELSE UnitsOfPlain(labels[i], at \o "/label" \o ToString(i))
         \o UnitsOfLabels(labels, i + 1, at)

\* a cluster encloses its frame and the entries of its inner group
RECURSIVE UnitsOfClusters(_, _, _)
UnitsOfClusters(clusters, i, at) ==
    IF i > Len(clusters) THEN <<>>
    ELSE Within(<< <<>> >> \o UnitsOfPlain(clusters[i].g[1],
                                           at \o "/cluster" \o ToString(i) \o "/g"),
                ClusterId(clusters[i].g[1], at \o "/cluster" \o ToString(i) \o "/id"))
         \o UnitsOfClusters(clusters, i + 1, at)

UnitsOfGroups(tree, at) ==
    Enclosed(Count(TreeEdgePaths(tree, at \o "/edgePaths")), <<>>)
    \o UnitsOfLabels(tree.edgeLabels, 1, at \o "/edgeLabels")
    \o UnitsOfChildren(tree.nodes.children, at \o "/nodes")
    \o UnitsOfLinks(tree.nodes.links, 1, at \o "/nodes")
    \o UnitsOfClusters(tree.clusters, 1, at \o "/clusters")

RECURSIVE UnitsOfGs(_, _, _)
UnitsOfGs(gs, i, at) ==
    IF i > Len(gs) THEN <<>>
    ELSE UnitsOfNode(gs[i], at \o "/g" \o ToString(i)) \o UnitsOfGs(gs, i + 1, at)

\* what the fallback scan reconstructs lies in the tree only
UnitsOfSvg(svg, n, at) ==
    UnitsOfGs(svg.gs, 1, at) \o Enclosed(n - Len(UnitsOfGs(svg.gs, 1, at)), <<>>)

\* the scan of the svg root is what is reconstructed when the groups give nothing
UnitsOfScan(units, tree, at) ==
    IF units # <<>> \/ tree.svg = None THEN units
    ELSE UnitsOfSvg(tree.svg[1], Count(from_svg_tree(tree, 0, 0, None, at)), at \o "/svg")

UnitsOfTree(tree, tree_id, at) ==
    Within(UnitsOfScan(UnitsOfGroups(tree, at), tree, at), tree_id)

\* ids without the repetitions of an identifier that follow it directly
RECURSIVE Distinct(_)
Distinct(ids) ==
    IF Len(ids) < 2 THEN ids
    ELSE IF ids[1] = ids[2] THEN Distinct(Tail(ids))
    ELSE <<ids[1]>> \o Distinct(Tail(ids))

\* C5: the identifiers in the group_ids of every element are those of the
\* units that enclose it and no others, ordered innermost first and outermost
\* last, at every depth of nesting.  (How often one unit's identifier is
\* appended is not what this property is about.)
C5_GroupOrder ==
    Built =>
      [i \in Ix |-> Distinct(Elts[i].group_ids)]
        = UnitsOfTree(doc.tree, random_id("/tree"), "")

\* an element of a node in a root subgraph nested MaxDepth deep
C5_Witness ==
    /\ Built
    /\ \E i \in Ix : Len(Elts[i].group_ids) = MaxDepth + 2
                      /\ Distinct(Elts[i].group_ids) = Elts[i].group_ids

----------------------------------------------------------------------------
(* Wire documents handed to Excalidraw.from_json, and their re-encoding *)

\* an element with the keys to_json always writes and the optional keys opt gives
WireElement(opt) ==
    [k \in BaseKeys \cup {o \in DOMAIN opt : opt[o] # None} |->
        IF k \in BaseKeys THEN Element_to_json(cls("rectangle", "w"))[k] ELSE opt[k][1]]

\* optional keys left out, or given a value: empty, zero and false ones, a
\* literal outside its enumeration
WireOptions ==
    [text : {None, Some(""), Some("hi")},
     simulatePressure : {None, Some(FALSE), Some(TRUE)},
     boundElements : {None, Some(<<>>), Some(<<[id |-> "t", type |-> "text"]>>)},
     fontSize : {None, Some(0), Some(20)},
     startBinding : {None, Some([elementId |-> "t", focus |-> 0, gap |-> 1])},
     endArrowhead : {None, Some("triangle"), Some("spike")}]

WireTop(elements) ==
    [type |-> "excalidraw", version |-> 2, source |-> "https://excalidraw.com",
     elements |-> elements,
     appState |-> [viewBackgroundColor |-> "#ffffff", gridSize |-> Some(20)],
     files |-> <<>>]

Without(j, keys) == [k \in DOMAIN j \ keys |-> j[k]]

\* a document with every key, one without version and source, one whose
\* appState is the empty object, one without appState
WireDocsOf(elements) ==
    { WireTop(elements),
      Without(WireTop(elements), {"version", "source"}),
      [WireTop(elements) EXCEPT !.appState = <<>>],
      Without(WireTop(elements), {"appState"}) }

\* the object j with the key k holding v
WithKey(j, k, v) == [h \in DOMAIN j \cup {k} |-> IF h = k THEN v ELSE j[h]]

\* a text element with its alignments and arrowheads written
PlainWireElement ==
    WithKey(WithKey(WithKey(WithKey(WithKey(
        Element_to_json(cls("text", "p")),
        "text", "hi"), "textAlign", "left"), "verticalAlign", "top"),
        "startArrowhead", "dot"), "endArrowhead", "bar")

\* the places of an element that hold a literal of an enumeration
EnumPlaces == DOMAIN EnumOf \cup {"boundElements"}

\* the element with a literal outside the enumeration at the place k
OffEnumElement(k) ==
    IF k = "boundElements"
    THEN WithKey(PlainWireElement, k, <<[id |-> "r", type |-> "rectangle"],
                                        [id |-> "t", type |-> "blob"]>>)
    ELSE WithKey(PlainWireElement, k, "no-" \o k)

\* documents with such an element, alone or after a well-formed one
OffEnumDocs ==
    { WireTop(<<OffEnumElement(k)>>) : k \in EnumPlaces }
    \cup { WireTop(<<PlainWireElement, OffEnumElement(k)>>) : k \in EnumPlaces }
    \cup { WireTop(<<PlainWireElement>>) }

WireDocs ==
    UNION { WireDocsOf(<<WireElement(opt)>>) : opt \in WireOptions } \cup OffEnumDocs

InitWire ==
    /\ wire \in [status : {"given"}, exc : {""}, json : WireDocs]
    /\ dec = NoScene
    /\ wire2 = NoWire
    /\ doc = NoDoc
    /\ scene = NoScene
    /\ path_in = NoPath
    /\ ps = Idle
    /\ tf_in = NoTransform
    /\ tf_out = NoResult
    /\ clip = NoClip
    /\ cc = NoRun
    /\ current = {}
    /\ hk = NoEvent

\* wire2 = Excalidraw.from_json(wire).to_json()
Reencode ==
    /\ dec.status = "built"
    /\ wire2.status = "none"
    /\ wire2' = [status |-> "encoded", exc |-> "", json |-> Excalidraw_to_json(dec)]
    /\ UNCHANGED <<sceneVars, wire, dec, pathVars, transformVars, clipVars, keyVars>>

NextWire == Decode \/ Reencode

SpecWire == InitWire /\ [][NextWire]_vars

\* the objects a and b have the same keys with the same values
SameObject(a, b) == DOMAIN a = DOMAIN b /\ \A k \in DOMAIN a : a[k] = b[k]

\* C3: encoding the decoding of a wire document that decodes without error
\* gives the document back, key for key and value for value, also when it
\* carries optional keys with empty, zero or false values.
C3_EncodeDecode ==
    wire2.status # "none" =>
      /\ DOMAIN wire2.json = DOMAIN wire.json
      /\ \A k \in (DOMAIN wire.json \cap DOMAIN wire2.json) \ {"elements", "appState"} :
            wire2.json[k] = wire.json[k]
      /\ "appState" \in DOMAIN wire.json => SameObject(wire2.json.appState, wire.json.appState)
      /\ Len(wire2.json.elements) = Len(wire.json.elements)
      /\ \A i \in 1..Len(wire.json.elements) :
            SameObject(wire2.json.elements[i], wire.json.elements[i])

----------------------------------------------------------------------------
(* Failures of one unit of a document *)

\* the texts of the Text elements returned
TextsReturned == {Elts[i].text : i \in {j \in Ix : Elts[j].type = "text"}}

\* the document is a flowchart whose nodes group holds the two labelled nodes
HoldsTwoNodes ==
    /\ doc.kind = "flowchart"
    /\ doc.tree.nodes.children = TwoNodes

\* C11: the failure of one unit (a path, an edge label, a cluster, a polygon)
\* never makes the reconstruction of the document raise, and the elements of
\* the well-formed units are still returned: the labels A and B of the two
\* well-formed nodes of a flowchart are among the elements.
C11_FailureIsolation ==
    scene.status # "none" =>
        /\ Built
        /\ HoldsTwoNodes => {Some("A"), Some("B")} \subseteq TextsReturned

----------------------------------------------------------------------------
(* The keys of an encoded document *)

\* C12: in the object Excalidraw.to_json produces, an optional field that is
\* unset is not written: every optional key of an element object stands for
\* an attribute of the element that is set, and appState has the key gridSize
\* only when the grid size is set.
C12_UnsetIsAbsent ==
    wire.status = "encoded" =>
        /\ \A i \in 1..Len(wire.json.elements) :
              \A k \in DOMAIN wire.json.elements[i] \cap OptKeys :
                  scene.elements[i][OptAttr[k]] # None
        /\ "gridSize" \in DOMAIN wire.json.appState => scene.app_state.grid_size # None

----------------------------------------------------------------------------
(* Decoding literals outside their enumeration *)

\* the literals of element j that are outside their enumeration
OffEnumOf(j) ==
    {j[k] : k \in {h \in DOMAIN EnumOf \cap DOMAIN j : j[h] \notin EnumOf[h]}}
    \cup (IF "boundElements" \in DOMAIN j
          THEN {j.boundElements[i].type : i \in 1..Len(j.boundElements)} \ TypeEnum
          ELSE {})

\* the literals of the wire document that are outside their enumeration
OffEnum == UNION {OffEnumOf(wire.json.elements[i]) : i \in 1..Len(wire.json.elements)}

\* C13: decoding a wire document with an element whose type, fillStyle,
\* strokeStyle, strokeSharpness, textAlign, verticalAlign, startArrowhead,
\* endArrowhead or boundElements entry type is outside its enumeration raises
\* an error carrying an offending literal, and no document is returned, not
\* even the elements decoded before the offending one.
C13_OffEnumRejected ==
    (dec.status # "none" /\ OffEnum # {}) =>
        /\ dec.status = "raised"
        /\ dec.exc = "ValueError"
        /\ dec.what \in OffEnum
        /\ dec.elements = <<>>

C13_Witness ==
    /\ dec.status = "raised"
    /\ dec.what = "blob"
    /\ Len(wire.json.elements) = 2
    /\ OffEnumOf(wire.json.elements[1]) = {}

----------------------------------------------------------------------------
(* src/graphpaste.py and src/mermaid.py: the conversion of the clipboard *)

\* the timeouts of the requests: range(2, 9, 2)
FirstTimeout == 2
LastTimeout == 8
TimeoutStep == 2

Marker == <<"e", "x", "c", "a", "l", "i", "d", "r", "a", "w", "/", "c", "l", "i", "p", "b", "o", "a", "r", "d">>
GraphColon == <<"g", "r", "a", "p", "h", ":">>
Graph == <<"g", "r", "a", "p", "h">>
ThinArrow == <<" ", "-", ">", " ">>
Arrow == <<" ", "-", "-", ">", " ">>
Dash == <<" ", "-", " ">>
DoubleDash == <<" ", "-", "-", " ">>

\* a clipboard holding something that is not text, a text, the text of the
\* JSON object j
NotText == [kind |-> "other", text |-> <<>>, json |-> None]
TextClip(text) == [kind |-> "text", text |-> text, json |-> None]
JsonClip(j) == [kind |-> "text", text |-> <<>>, json |-> Some(j)]

\* "excalidraw/clipboard" in text: for the text of a JSON object, its type
HasMarker(c) ==
    IF c.json = None THEN Occurs(c.text, Marker) ELSE c.json[1].type = "excalidraw/clipboard"

\* the text of a graph: its characters, or the JSON text of an object as a whole
GraphText(chars) == [chars |-> chars, json |-> None]
JsonText(j) == [chars |-> <<>>, json |-> Some(j)]

\* the three repairs of get_clipboard_as_graph
Repaired(chars) ==
    Replace(Replace(Replace(chars, GraphColon, Graph), ThinArrow, Arrow), Dash, DoubleDash)

\* from "if not text: return ''" on, for a text that is a str
GraphOf(chars) ==
    IF chars = <<>> THEN Some(GraphText(<<>>))
    ELSE IF Repaired(strip(chars, {" "})) = <<>> THEN None
    ELSE Some(GraphText(Repaired(strip(chars, {" "}))))

\* text = excali.elements[0].original_text, for a document that decoded:
\* no element is an IndexError, which leaves text as it was pasted
OriginalTextOf(c, d) ==
    IF d.status = "raised" \/ d.elements = <<>> THEN Some(JsonText(c.json[1]))
    ELSE IF d.elements[1].original_text = None THEN Some(GraphText(<<>>))
    ELSE GraphOf(d.elements[1].original_text[1])

\* get_clipboard_as_graph(): None, or Some(text)
get_clipboard_as_graph(c) ==
    IF c.kind # "text" THEN None
    ELSE IF ~HasMarker(c) THEN Some(GraphText(<<>>))
    ELSE IF c.json = None THEN GraphOf(c.text)
    ELSE OriginalTextOf(c, Excalidraw_from_json(c.json[1]))

\* what the rendering service answers: the sentinel, nothing, markup
Sentinel == [chars |-> "invalid encoded code", tree |-> None]
EmptyText == [chars |-> "", tree |-> None]
Markup(tree) == [chars |-> "<svg>", tree |-> Some(tree)]

\* the end of mermaid_to_svg: if result.text == "invalid encoded code": return ""
SvgOf(result) == IF result.chars = Sentinel.chars THEN EmptyText ELSE result

\* json.dumps(excali_json) on the clipboard
Dumped(j) == JsonClip(j)

\* convert_clipboard at rest, before the hotkey
CcIdle ==
    [pc |-> "idle", pasted |-> NoClip, text |-> None, timeout |-> 0, requests |-> <<>>,
     result |-> EmptyText, svg |-> EmptyText, excali |-> NoScene, ret |-> None, exc |-> ""]

\* convert_clipboard stopped by the exception kind
CcRaised(c, kind) == [c EXCEPT !.pc = "raised", !.exc = kind]

\* return value
CcReturned(c, value) == [c EXCEPT !.pc = "returned", !.ret = Some(value)]

\* text = get_clipboard_as_graph(); mermaid_to_svg(text) up to its first
\* request: graph.encode("ascii") of None is an AttributeError
CcStarted(c, pasted, text) ==
    IF text = None
    THEN CcRaised([c EXCEPT !.pasted = pasted], "AttributeError")
    ELSE [c EXCEPT !.pc = "request", !.pasted = pasted, !.text = text,
                   !.timeout = FirstTimeout]

\* requests.get(uri, timeout=timeout) raised Timeout: continue; when the loop
\* runs out, "if e" reads the name that the except clause unbound
CcTimedOut(c) ==
    IF c.timeout < LastTimeout
    THEN [c EXCEPT !.requests = Append(@, c.timeout), !.timeout = @ + TimeoutStep]
    ELSE CcRaised([c EXCEPT !.requests = Append(@, c.timeout)], "UnboundLocalError")

\* a variant that reports success whatever was reconstructed
CcEncoded_Always(c, excali) ==
    IF excali.status = "raised" THEN CcRaised(c, excali.exc)
    ELSE CcReturned([c EXCEPT !.excali = excali], TRUE)

\* excali_json = excali.to_json(); if not excali_json["elements"]: return False;
\* copy_to_clipboard(json.dumps(excali_json)); return True
CcEncoded(c, excali) ==
    IF excali.status = "raised" THEN CcRaised(c, excali.exc)
    ELSE IF Excalidraw_to_json(excali).elements = <<>>
         THEN CcReturned([c EXCEPT !.excali = excali], FALSE)
    ELSE CcReturned([c EXCEPT !.excali = excali], TRUE)

\* from "if not mermaid_svg" on
CcConverted(c, svg) ==
    IF svg.chars = "" THEN CcReturned(c, FALSE)
    ELSE CcEncoded(c, SceneOf(from_svg_tree(svg.tree[1], 0, 0, None, "")))

\* requests.get returned result
CcAnswered(c, result) ==
    CcConverted([c EXCEPT !.requests = Append(@, c.timeout), !.result = result,
                          !.svg = SvgOf(result)],
                SvgOf(result))

\* the clipboard after convert_clipboard got to c: written when it returned True
ClipAfter(before, c) ==
    IF c.pc = "returned" /\ c.ret = Some(TRUE) THEN Dumped(Excalidraw_to_json(c.excali))
    ELSE before

(* What is on the clipboard when the hotkey is pressed, and what the service
   answers *)

ClipElement(type, original_text) ==
    WithKey(Element_to_json(cls(type, "c")), "originalText", original_text)

ClipJson(elements) ==
    [type |-> "excalidraw/clipboard", elements |-> elements, files |-> <<>>]

Clipboards ==
    { NotText,
      TextClip(<<"g", "r", "a", "p", "h", " ", "T", "D">>),
      TextClip(<<" ", "e", "x", "c", "a", "l", "i", "d", "r", "a", "w", "/", "c", "l", "i", "p", "b", "o", "a", "r", "d", " ", "A", " ", "-", " ", "B", " ">>),
      JsonClip(ClipJson(<<ClipElement("text", <<" ", " ", "g", "r", "a", "p", "h", ":", " ", "A", " ", "-", ">", " ", "B", " ", "-", " ", "C", " ">>)>>)),
      JsonClip(ClipJson(<<ClipElement("text", <<"g", "r", "a", "p", "h", " ", "T", "D", ";", " ", "A", "-", "-", ">", "B">>)>>)),
      JsonClip(ClipJson(<<ClipElement("text", <<" ", " ">>)>>)),
      JsonClip(ClipJson(<<Element_to_json(cls("rectangle", "c"))>>)),
      JsonClip(ClipJson(<<>>)),
      JsonClip(Without(ClipJson(<<>>), {"files"})),
      JsonClip(WireTop(<<PlainWireElement>>)) }

\* markup without anything to reconstruct, a flowchart, a fallback diagram,
\* a flowchart with an edge label that has no span
Markups ==
    { EmptyTree,
      [EmptyTree EXCEPT !.svg = Some([gs |-> <<>>, paths |-> <<>>,
                                      rects |-> <<>>, texts |-> <<>>])],
      [EmptyTree EXCEPT !.svg = Some([gs |-> <<>>, paths |-> <<>>,
                                      rects |-> SvgRectTags(1), texts |-> SvgTextTags(1)])],
      TreeTag(CHOOSE f \in TreeFrames(0) :
                /\ f.edgePaths.groups # <<>> /\ f.edgePaths.groups[1].path # None
                /\ f.edgeLabels = <<>> /\ f.clusters = <<>>, TwoNodes, <<>>),
      TreeTag(CHOOSE f \in TreeFrames(0) : f.edgeLabels = <<EdgeLabelTag(FALSE)>>,
              TwoNodes, <<>>) }

Results == {Sentinel, EmptyText} \cup {Markup(t) : t \in Markups}

InitClip ==
    /\ clip \in Clipboards
    /\ cc = CcIdle
    /\ current = {}
    /\ hk = NoEvent
    /\ path_in = NoPath
    /\ ps = Idle
    /\ tf_in = NoTransform
    /\ tf_out = NoResult
    /\ doc = NoDoc
    /\ scene = NoScene
    /\ wire = NoWire
    /\ dec = NoScene
    /\ wire2 = NoWire

\* convert_clipboard() is called and runs up to its first request
Start ==
    /\ cc.pc = "idle"
    /\ cc' = CcStarted(cc, clip, get_clipboard_as_graph(clip))
    /\ UNCHANGED <<clip, pathVars, transformVars, sceneVars, wireVars, keyVars>>

\* the request times out
RequestTimesOut ==
    /\ cc.pc = "request"
    /\ cc' = CcTimedOut(cc)
    /\ UNCHANGED <<clip, pathVars, transformVars, sceneVars, wireVars, keyVars>>

\* the request fails otherwise: the exception leaves mermaid_to_svg
RequestFails ==
    /\ cc.pc = "request"
    /\ cc' = CcRaised([cc EXCEPT !.requests = Append(@, cc.timeout)], "ConnectionError")
    /\ UNCHANGED <<clip, pathVars, transformVars, sceneVars, wireVars, keyVars>>

\* the service answers and convert_clipboard runs to its end
RequestReturns ==
    /\ cc.pc = "request"
    /\ \E result \in Results :
          /\ cc' = CcAnswered(cc, result)
          /\ clip' = ClipAfter(clip, CcAnswered(cc, result))
    /\ UNCHANGED <<pathVars, transformVars, sceneVars, wireVars, keyVars>>

NextClip == Start \/ RequestTimesOut \/ RequestFails \/ RequestReturns

SpecClip == InitClip /\ [][NextClip]_vars

\* convert_clipboard has written to the clipboard
Wrote == cc.pc # "idle" /\ clip # cc.pasted

\* C14: convert_clipboard writes to the clipboard only when the service
\* returned markup other than the sentinel and reconstruction produced at
\* least one element; when the service returns the sentinel, mermaid_to_svg
\* yields the empty string and convert_clipboard returns False without
\* raising and leaves the clipboard as it was; when reconstruction yields no
\* element it returns False and leaves the clipboard as it was.
C14_ClipboardGuard ==
    /\ Wrote =>
          /\ cc.result \notin {Sentinel, EmptyText}
          /\ cc.excali.status = "built"
          /\ Len(cc.excali.elements) >= 1
    /\ cc.result = Sentinel =>
          /\ cc.svg = EmptyText
          /\ cc.pc = "returned"
          /\ cc.ret = Some(FALSE)
          /\ ~Wrote
    /\ (cc.excali.status = "built" /\ cc.excali.elements = <<>>) =>
          /\ cc.pc = "returned"
          /\ cc.ret = Some(FALSE)
          /\ ~Wrote

C14_Witness ==
    /\ cc.result = Sentinel
    /\ cc.requests = <<FirstTimeout, FirstTimeout + TimeoutStep>>
    /\ cc.ret = Some(FALSE)
    /\ clip = cc.pasted
    /\ clip.json # None

----------------------------------------------------------------------------
(* Element.from_svg_path: commands the loop does not handle *)

\* the commands the loop has a branch for that appends points
Handled == {"M", "L", "l", "C", "A", "a", "Z", "z"}

\* a turn of the loop that begins at a token of a command without a branch
\* ends the parsing with the exception that names the token
UnknownInLoop ==
    (InLoop(ps) /\ Head1(ps) \notin Handled) =>
        /\ ps'.status = "raised"
        /\ ps'.exc = "Exception"
        /\ ps'.err = ps.d[1]

\* C15: whenever the next token from_svg_path processes begins with a
\* character that is none of M, L, l, C, A, a, Z, z, the parsing stops with the
\* exception that names it and no element is returned: so for the token the
\* path begins with, and for the token at the head of d at every turn of the
\* command loop.
C15_UnknownCommand ==
    /\ [](ps.status # "idle" /\ path_in.cmds[1].letter \notin Handled =>
            ps.status = "raised" /\ ps.exc = "Exception")
    /\ [][UnknownInLoop]_vars

----------------------------------------------------------------------------
(* Element.from_svg_path: C segments that are not flattened *)

\* C16: a C segment whose two control points and end point share their x or
\* share their y contributes exactly one point, the end point relative to the
\* anchor; its control points are not appended.
C16_DegenerateCurve ==
    [][(CTurn /\ ~Flattened(DeclaredCurve)) =>
          /\ Len(ps'.points) = Len(ps.points) + 1
          /\ Last(ps'.points) = DeclaredCurve[3]]_vars

----------------------------------------------------------------------------
(* Element.from_svg_path: coordinate pairs without a command letter *)

\* the letter of the command that the i-th command repeats
RECURSIVE LetterAt(_, _)
LetterAt(cmds, i) ==
    IF cmds[i].letter # "" \/ i = 1 THEN cmds[i].letter ELSE LetterAt(cmds, i - 1)

\* the commands with every repetition written with its letter
Explicit(cmds) == [i \in 1..Len(cmds) |-> [cmds[i] EXCEPT !.letter = LetterAt(cmds, i)]]

\* the path is made of M, L and l commands and repetitions of them
OnlyLines(cmds) == \A i \in 1..Len(cmds) : cmds[i].letter \in {"M", "L", "l", ""}

HasImplicit(cmds) == \E i \in 1..Len(cmds) : cmds[i].letter = ""

\* the path of path_in with the letters of its repetitions written
ExplicitTag ==
    [path_in.tag EXCEPT !.d = Render(Explicit(path_in.cmds), path_in.layout)]

\* C17: coordinate pairs that follow a command without a letter of their own
\* are processed as a further instance of the previous command, whatever the
\* length and sign of their tokens: the parser ends as it ends on the path in
\* which the letter is written before them, with the same points.
C17_ImplicitRepetition ==
    (/\ ps.status \in {"done", "raised"}
     /\ OnlyLines(path_in.cmds)
     /\ HasImplicit(path_in.cmds)) =>
        /\ ps.status = from_svg_path(ExplicitTag).status
        /\ ps.points = from_svg_path(ExplicitTag).points

----------------------------------------------------------------------------
(* Element.from_svg_path: closing a path *)

\* max - min of the k-th coordinates of points
Extent(points, k) ==
    LET vs == {points[i][k] : i \in 1..Len(points)}
    IN (CHOOSE hi \in vs : \A v \in vs : v <= hi) - (CHOOSE lo \in vs : \A v \in vs : lo <= v)

\* a turn of the loop that begins at a Z or z command
ZTurn == InLoop(ps) /\ Head1(ps) \in {"Z", "z"}

\* C18: at a Z or z command the parser appends the point (0,0) and leaves the
\* loop; what follows the command in d contributes no point: the element is
\* finished with the points collected up to that closing point, its width and
\* height being their max-minus-min extents.
C18_ClosePath ==
    [][/\ ZTurn =>
            /\ ps'.points = Append(ps.points, <<0, 0>>)
            /\ ps'.status = "break"
       /\ ps.status = "break" =>
            /\ ps'.status = "done"
            /\ ps'.points = ps.points
            /\ ps'.width = Extent(ps.points, 1)
            /\ ps'.height = Extent(ps.points, 2)]_vars

C18_Witness ==
    /\ ps.status = "done"
    /\ Len(path_in.cmds) = 3
    /\ path_in.cmds[2].letter = "L"
    /\ path_in.cmds[3].letter = "z"
    /\ Len(ps.points) = 3
    /\ Last(ps.points) = <<0, 0>>
    /\ ps.width > 0
    /\ ps.d = <<<<"z">>>>

----------------------------------------------------------------------------
(* Element.from_svg_path on paths with a style *)

WidthKeys == { <<"s", "t", "r", "o", "k", "e", "-", "w", "i", "d", "t", "h">>, <<"S", "t", "r", "o", "k", "e", "-", "W", "i", "d", "t", "h">> }
WidthNumbers == { <<"1">>, <<"2">>, <<"3">>, <<"2", ".", "5">>, <<"1", "0">>, <<"1", ".", "5">> }
WidthSuffixes == { <<>>, <<"p", "x">>, <<"P", "X">> }
StyleTails == { <<>>, <<";", "f", "i", "l", "l", ":", "n", "o", "n", "e">>, <<" ", ";", " ", "s", "t", "r", "o", "k", "e", "-", "d", "a", "s", "h", "a", "r", "r", "a", "y", ":", " ", "3">> }

\* the styles that declare a stroke width, and the width each one declares
WidthStyles ==
    { [style |-> Some(k \o <<":">> \o sp \o n \o sx \o t), declared |-> Some(n)] :
        k \in WidthKeys, sp \in {<<>>, <<" ">>}, n \in WidthNumbers,
        sx \in WidthSuffixes, t \in StyleTails }

\* no style, a style without a stroke width, a declaration without a colon
OtherStyles ==
    { [style |-> None, declared |-> None],
      [style |-> Some(<<"f", "i", "l", "l", ":", "n", "o", "n", "e">>), declared |-> None],
      [style |-> Some(<<"s", "t", "r", "o", "k", "e", "-", "w", "i", "d", "t", "h">>), declared |-> None] }

StyleInputs ==
    { [tag |-> [PathTag(<<LineToCmd>>, m) EXCEPT !.style = st.style],
       cmds |-> <<[letter |-> "M", nums |-> << <<"2">>, <<"1">> >>], LineToCmd>>,
       layout |-> "glued", declared |-> st.declared] :
      st \in WidthStyles \cup OtherStyles, m \in BOOLEAN }

InitStyle ==
    /\ path_in \in StyleInputs
    /\ ps = Idle
    /\ tf_in = NoTransform
    /\ tf_out = NoResult
    /\ doc = NoDoc
    /\ scene = NoScene
    /\ wire = NoWire
    /\ dec = NoScene
    /\ wire2 = NoWire
    /\ clip = NoClip
    /\ cc = NoRun
    /\ current = {}
    /\ hk = NoEvent

NextStyle == DoStart \/ DoL \/ DoFinish

SpecStyle == InitStyle /\ [][NextStyle]_vars

\* C19: the element's stroke_width is 1 when the style of the path declares
\* a stroke-width of 2 or less, or none, and is the declared width when the
\* style declares one greater than 2, with a px suffix or as a bare number.
C19_StrokeWidth ==
    ps.status = "done" =>
        ps.stroke_width =
            IF path_in.declared = None THEN Unit
            ELSE IF float(path_in.declared[1]).v <= 2 * Unit THEN Unit
            ELSE float(path_in.declared[1]).v

----------------------------------------------------------------------------
(* Element.from_svg_node: what a container shape is bound to *)

\* the document is one node, and its reconstruction returned
OneNode == doc.kind = "node" /\ Built
NodeOf == doc.tree.nodes.children[1]

\* the Text elements of the foreignobjects come first in the node's elements,
\* the divider lines after them
TextCount == Cardinality({k \in 1..Len(NodeOf.fos) : NodeOf.fos[k].text # ""})
LineCount == Len(NodeOf.lines)
Collected == 1..(TextCount + LineCount)
DividerLines == (TextCount + 1)..(TextCount + LineCount)

\* the container shapes of the node: rect, polygon, circle, path
NodeShapes == {i \in Ix : i > TextCount + LineCount /\ Elts[i].type # "text"}
LastShape == CHOOSE s \in NodeShapes : \A t \in NodeShapes : t <= s

\* joiner_objs: the lines, and the text when there is exactly one
Joined == IF TextCount = 1 THEN Collected ELSE DividerLines

----------------------------------------------------------------------------
(* The general scan: one element for every top-level rect *)

\* the document has none of the four groups and its svg root has no
\* top-level g: the shapes returned are those of the top-level rects
ScannedRects ==
    /\ Built
    /\ doc.kind = "svg"
    /\ doc.tree.svg[1].gs = <<>>

\* the entries of the returned list built from a rect (a rect with round
\* corners is returned as an ellipse)
RectEntries == {i \in Ix : Elts[i].type \in {"rectangle", "ellipse"}}

\* C21: when the general scan runs on an svg root with k top-level rects, the
\* returned list holds exactly k elements built from a rect and no element
\* object is listed more than once, so each receives the tree offset and the
\* tree's group id exactly once.
C21_OnePerRect ==
    ScannedRects =>
        /\ Cardinality(RectEntries) = Len(doc.tree.svg[1].rects)
        /\ \A i \in Ix : Times(Elts, i) = 1
        /\ \A i \in Ix : Len(Elts[i].group_ids) = 1

----------------------------------------------------------------------------
(* Element.from_svg_path: where a flattened curve starts *)

\* the cursor before the command, relative to the anchor
CursorPoint == <<ps.cur[1] - ps.x, ps.cur[2] - ps.y>>

\* the points a turn of the loop appended
AppendedPoints == SubSeq(ps'.points, Len(ps.points) + 1, Len(ps'.points))

\* C22: the points a flattened C command contributes are the samples of the
\* cubic Bezier of the cursor before the command, the two control points and
\* the end point, so the sample at t = 0 is the cursor (relative to the
\* anchor) and not the first control point.
C22_CurveFromCursor ==
    [][(CTurn /\ Flattened(DeclaredCurve)) =>
        /\ AppendedPoints = bezier_curve_recursive(<<CursorPoint>> \o DeclaredCurve)
        /\ AppendedPoints[1] = CursorPoint]_vars

----------------------------------------------------------------------------
(* Element.from_svg_node: the text children *)

\* the returned list has a Text element with the content s
Carried(s) == \E i \in Ix : Elts[i].type = "text" /\ Elts[i].text = Some(s)

\* the sub-spans of the text t that are not placeholders
KeptSpans(t) == {k \in 1..Len(t.tspans) : t.tspans[k].text \notin Placeholders}

\* every sub-span of t that is not a placeholder has its Text element
SpansCarried(t) == \A k \in KeptSpans(t) : Carried(t.tspans[k].text)

\* C23: for every text child of a node the returned list has a Text element
\* with its content: one for every sub-span that is not a placeholder when the
\* text has sub-spans, one for the whole text when it has none.
C23_NoTextLost ==
    OneNode =>
        \A j \in 1..Len(NodeOf.texts) :
            IF NodeOf.texts[j].tspans # <<>>
            THEN SpansCarried(NodeOf.texts[j])
            ELSE Carried(NodeOf.texts[j].text)

----------------------------------------------------------------------------
(* mermaid_to_svg: the retry loop *)

\* the timeouts of the requests the loop can issue, in order
Timeouts == <<2, 4, 6, 8>>

\* the requests that ended so far are the first ones of Timeouts, in order
InOrder ==
    /\ Len(cc.requests) <= Len(Timeouts)
    /\ cc.requests = SubSeq(Timeouts, 1, Len(cc.requests))

\* a step after which another request is in flight
NextRequest == cc.pc = "request" /\ cc'.pc = "request" /\ cc' # cc

\* a request completed, or the function was left by an exception
Ended == cc.pc \in {"returned", "raised"}

\* the fourth request times out
LastTimesOut == RequestTimesOut /\ cc.timeout = Timeouts[Len(Timeouts)]

\* the first three parts of C24: at most four requests, with the timeouts 2,
\* 4, 6, 8 in this order; another request only after a timeout; none after a
\* request completed
RetryOrder ==
    /\ [](cc.pc # "idle" => InOrder)
    /\ [][NextRequest => /\ RequestTimesOut
                         /\ Len(cc.requests) < Len(Timeouts)
                         /\ cc'.timeout = Timeouts[Len(cc.requests) + 2]]_vars
    /\ [][Ended => cc' = cc]_vars

\* C24: mermaid_to_svg issues at most four requests, with timeouts 2, 4, 6 and
\* 8 seconds in that order; it issues the next one only when the previous one
\* timed out and never after a request completed; and when all four time out
\* it ends by raising the timeout error of the last attempt.
C24_RetryLoop ==
    /\ RetryOrder
    /\ [][LastTimesOut => (cc'.pc = "raised" /\ cc'.exc = "Timeout")]_vars

----------------------------------------------------------------------------
(* graphpaste: on_press and on_release *)

\* keys as the listener hands them over: members of keyboard.Key, and key
\* codes with a character
SpecialKey(name) == [kind |-> "special", name |-> name]
CharKey(char) == [kind |-> "char", char |-> char]

\* CONTROL_KEYS = {keyboard.Key.ctrl, keyboard.Key.ctrl_l}
CONTROL_KEYS == {SpecialKey("ctrl"), SpecialKey("ctrl_l")}

\* the character a terminal sends for Control-C
Etx == "\\x03"

Keys ==
    CONTROL_KEYS \cup {SpecialKey("ctrl_r")}
    \cup {CharKey("c"), CharKey("C"), CharKey(Etx)}

\* repr(key).lower(): a member of keyboard.Key prints as <Key.name: ...>, a
\* key code as the repr of its character, quotes included
ReprLower(key) ==
    IF key.kind = "special" THEN "<key." \o key.name \o ">"
    ELSE IF key.char = Etx THEN "'" \o Etx \o "'"
    ELSE "'" \o LowerChar(key.char) \o "'"

\* repr(key).lower() in ["c", r"'\x03'"]
IsCopy(key) == ReprLower(key) \in {"c", "'" \o Etx \o "'"}

\* the request failed otherwise
CcFailed(c) == CcRaised([c EXCEPT !.requests = Append(@, c.timeout)], "ConnectionError")

\* n requests in a row timed out
RECURSIVE TimedOut(_, _)
TimedOut(c, n) == IF n = 0 THEN c ELSE TimedOut(CcTimedOut(c), n - 1)

\* every way convert_clipboard() can end on the clipboard pasted: the requests
\* time out, fail or are answered as the network decides
ConvertRuns(pasted) ==
    IF CcStarted(CcIdle, pasted, get_clipboard_as_graph(pasted)).pc # "request"
    THEN {CcStarted(CcIdle, pasted, get_clipboard_as_graph(pasted))}
    ELSE {TimedOut(CcStarted(CcIdle, pasted, get_clipboard_as_graph(pasted)), Len(Timeouts))}
         \cup {CcFailed(TimedOut(CcStarted(CcIdle, pasted, get_clipboard_as_graph(pasted)), n)) :
                 n \in 0..(Len(Timeouts) - 1)}
         \cup {CcAnswered(TimedOut(CcStarted(CcIdle, pasted, get_clipboard_as_graph(pasted)), n), r) :
                 n \in 0..(Len(Timeouts) - 1), r \in Results}

\* if key in CONTROL_KEYS: current.add(key)
Added(held, key) == IF key \in CONTROL_KEYS THEN held \cup {key} ELSE held

\* current.issubset(CONTROL_KEYS) and repr(key).lower() in ["c", r"'\x03'"]
Fires(held, key) == held \subseteq CONTROL_KEYS /\ IsCopy(key)

\* on_press(key), for whichever key the listener reports: an exception of
\* convert_clipboard is caught and printed
on_press ==
    \E key \in Keys :
        /\ current' = Added(current, key)
        /\ hk' = [event |-> "press", key |-> key, held |-> Added(current, key),
                  converted |-> Fires(Added(current, key), key)]
        /\ IF Fires(Added(current, key), key)
           THEN \E run \in ConvertRuns(clip) :
                   /\ cc' = run
                   /\ clip' = ClipAfter(clip, run)
           ELSE UNCHANGED clipVars
        /\ UNCHANGED <<pathVars, transformVars, sceneVars, wireVars>>

\* on_release(key): current.discard(key)
on_release ==
    \E key \in Keys :
        /\ current' = current \ {key}
        /\ hk' = [event |-> "release", key |-> key, held |-> current \ {key},
                  converted |-> FALSE]
        /\ UNCHANGED <<clipVars, pathVars, transformVars, sceneVars, wireVars>>

\* what is on the clipboard when the listener starts: no text, a graph, a
\* selection without elements
KeyClipboards ==
    { NotText,
      TextClip(<<"g", "r", "a", "p", "h", " ", "T", "D">>),
      JsonClip(ClipJson(<<>>)) }

InitKeys ==
    /\ clip \in KeyClipboards
    /\ cc = CcIdle
    /\ current = {}
    /\ hk = NoEvent
    /\ path_in = NoPath
    /\ ps = Idle
    /\ tf_in = NoTransform
    /\ tf_out = NoResult
    /\ doc = NoDoc
    /\ scene = NoScene
    /\ wire = NoWire
    /\ dec = NoScene
    /\ wire2 = NoWire

NextKeys == on_press \/ on_release

SpecKeys == InitKeys /\ [][NextKeys]_vars

\* the last event handled called convert_clipboard
Converted == hk.event # "none" /\ hk.converted

\* C25: over every interleaving of presses and releases, convert_clipboard is
\* called only by a press of the copy key made while at least one Control key
\* is recorded as held in current; a press of the copy key with no Control
\* key held never triggers a conversion.
C25_HotkeyGuard ==
    Converted =>
        /\ hk.event = "press"
        /\ IsCopy(hk.key)
        /\ hk.held \cap CONTROL_KEYS # {}

====
